---- MODULE Spec2Model ----
(***************************************************************************)
(* Model of the outbound delivery pipeline of the GCP onboarding function: *)
(*   services/aws-requests.js   sendToAwsEndpoint, getAwsRequestHeaders,   *)
(*                              buildEndpointWithPath, buildErrorDetails   *)
(*   services/cognito.js        getCognitoAccessToken                      *)
(*   handlers/cloudFunction.js  extractAndSendGCPInfo                      *)
(*   constants.js               AWS_ENDPOINT, AWS_ENDPOINT_PATH, COGNITO_* *)
(*                                                                         *)
(* One behaviour is one invocation: either the HTTP handler is invoked, or *)
(* the exported sendToAwsEndpoint is called directly with some grant.      *)
(* JavaScript strings are sequences of one-character strings, so that      *)
(* includes('/', 8), startsWith, trim, split and the URL parsing are       *)
(* computed on characters.  Every awaited network call is two steps, the   *)
(* request going out and its outcome coming back.                          *)
(***************************************************************************)
EXTENDS Integers, Sequences, FiniteSets, TLC

(***************************************************************************)
(* JavaScript values                                                       *)
(***************************************************************************)
\* undefined / null / an unset environment variable
Undefined == <<"undefined">>

\* JavaScript truthiness of an optional string
Truthy(v) == v # Undefined /\ v # <<>>

\* a || b on optional strings
OrElse(a, b) == IF Truthy(a) THEN a ELSE b

\* String.prototype.startsWith
StartsWith(s, p) == Len(s) >= Len(p) /\ SubSeq(s, 1, Len(p)) = p

\* String.prototype.includes(c, from) for a one-character c (from is 0-based)
Includes(s, c, from) == \E i \in (from + 1)..Len(s) : s[i] = c

\* 1-based position of the first c in s at or after 1-based position from,
\* Len(s) + 1 when there is none
FirstAt(s, c, from) ==
    IF \E i \in from..Len(s) : s[i] = c
    THEN CHOOSE i \in from..Len(s) : s[i] = c /\ \A j \in from..(i - 1) : s[j] # c
    ELSE Len(s) + 1

\* String.prototype.trim on the whitespace the inputs contain
Trim(s) ==
    IF \A i \in 1..Len(s) : s[i] = " " THEN <<>>
    ELSE LET a == CHOOSE i \in 1..Len(s) : s[i] # " " /\ \A j \in 1..(i - 1) : s[j] = " "
             b == CHOOSE i \in 1..Len(s) : s[i] # " " /\ \A j \in (i + 1)..Len(s) : s[j] = " "
         IN  SubSeq(s, a, b)

Digits == {"0", "1", "2", "3", "4", "5", "6", "7", "8", "9"}

HttpPrefix == <<"h", "t", "t", "p", ":", "/", "/">>
HttpsPrefix == <<"h", "t", "t", "p", "s", ":", "/", "/">>

\* length of the leading http:// or https://, 0 when the string has neither
SchemeLen(s) ==
    IF StartsWith(s, HttpsPrefix) THEN Len(HttpsPrefix)
    ELSE IF StartsWith(s, HttpPrefix) THEN Len(HttpPrefix)
    ELSE 0

(***************************************************************************)
(* new URL(s), on the strings the model feeds it: http(s)://host[:port]    *)
(* followed by nothing or by a path.  It throws (ok = FALSE) when there is *)
(* no scheme, when the host is empty or holds a space, and when the port   *)
(* is not a number.  protocol has no "//", as in the URL API.              *)
(***************************************************************************)
ParseUrl(s) ==
    LET n    == SchemeLen(s)
        stop == FirstAt(s, "/", n + 1)
        auth == SubSeq(s, n + 1, stop - 1)
        col  == FirstAt(auth, ":", 1)
        host == SubSeq(auth, 1, col - 1)
        port == SubSeq(auth, col + 1, Len(auth))
    IN  IF n = 0 \/ host = <<>> \/ (\E i \in 1..Len(host) : host[i] = " ")
           \/ (\E i \in 1..Len(port) : port[i] \notin Digits)
        THEN [ok |-> FALSE, protocol |-> <<>>, hostname |-> <<>>, port |-> <<>>]
        ELSE [ok |-> TRUE, protocol |-> SubSeq(s, 1, n - 2), hostname |-> host, port |-> port]

\* `${urlObj.protocol}//${urlObj.hostname}${urlObj.port ? ':' + urlObj.port : ''}`
UrlOrigin(u) ==
    u.protocol \o <<"/", "/">> \o u.hostname
      \o (IF u.port # <<>> THEN <<":">> \o u.port ELSE <<>>)

\* s.match(/^(https?:\/\/[^\/]+)/): the first group, Undefined when no match
MatchSchemeHost(s) ==
    LET n    == SchemeLen(s)
        stop == FirstAt(s, "/", n + 1)
    IN  IF n = 0 \/ stop = n + 1 THEN Undefined ELSE SubSeq(s, 1, stop - 1)

\* s.split('/').slice(0, 3).join('/'): s up to its third '/'
FirstThreeParts(s) ==
    LET p1 == FirstAt(s, "/", 1)
        p2 == FirstAt(s, "/", p1 + 1)
        p3 == FirstAt(s, "/", p2 + 1)
    IN  SubSeq(s, 1, IF p3 > Len(s) THEN Len(s) ELSE p3 - 1)


(***************************************************************************)
(* constants.js                                                            *)
(***************************************************************************)
AWS_ENDPOINT ==
    <<"h", "t", "t", "p", "s", ":", "/", "/", "n", "m", "r", "h",
      "p", "2", "6", "r", "a", "7", ".", "e", "x", "e", "c", "u",
      "t", "e", "-", "a", "p", "i", ".", "e", "u", "-", "c", "e",
      "n", "t", "r", "a", "l", "-", "1", ".", "a", "m", "a", "z",
      "o", "n", "a", "w", "s", ".", "c", "o", "m">>

AWS_ENDPOINT_PATH ==
    <<"/", "p", "r", "o", "d", "/", "r", "u", "n", "-", "a", "s",
      "s", "e", "s", "s", "m", "e", "n", "t">>

COGNITO_TOKEN_URL ==
    <<"h", "t", "t", "p", "s", ":", "/", "/", "a", "r", "c", "h",
      "m", "a", "t", "e", "-", "g", "c", "p", "-", "o", "n", "b",
      "o", "a", "r", "d", "i", "n", "g", "-", "d", "e", "v", ".",
      "a", "u", "t", "h", ".", "e", "u", "-", "c", "e", "n", "t",
      "r", "a", "l", "-", "1", ".", "a", "m", "a", "z", "o", "n",
      "c", "o", "g", "n", "i", "t", "o", ".", "c", "o", "m", "/",
      "o", "a", "u", "t", "h", "2", "/", "t", "o", "k", "e", "n">>

COGNITO_CLIENT_ID ==
    <<"5", "3", "g", "6", "0", "h", "i", "m", "c", "7", "a", "l",
      "9", "r", "3", "7", "m", "2", "o", "c", "p", "s", "s", "u",
      "r", "9">>

COGNITO_CLIENT_SECRET_B64 ==
    <<"1", "u", "o", "b", "3", "s", "h", "4", "p", "1", "i", "d",
      "r", "6", "k", "0", "u", "2", "v", "i", "k", "3", "6", "h",
      "2", "t", "c", "8", "7", "t", "h", "j", "p", "u", "m", "k",
      "d", "d", "t", "5", "6", "7", "c", "i", "e", "r", "c", "6",
      "4", "s", "7", "o">>

(***************************************************************************)
(* services/aws-requests.js: pure helpers                                  *)
(***************************************************************************)
Bearer == <<"B", "e", "a", "r", "e", "r">>

\* no grant at all: cognitoAuth undefined or null
NoGrant == [absent |-> TRUE]

\* variant: any grant object passes, whatever its token
HasToken_AnyGrant(auth) == auth # NoGrant

\* variant: a grant passes when its token is defined, the empty string included
HasToken_DefinedToken(auth) == auth # NoGrant /\ auth.token # Undefined

\* a grant has a token: auth?.token, !(!cognitoAuth || !cognitoAuth.token)
HasToken(auth) == auth # NoGrant /\ Truthy(auth.token)

\* variant: the token type is not defaulted to Bearer
getAwsRequestHeaders_NoDefault(auth, apiKey) ==
    [contentType   |-> "application/json",
     authToken     |-> IF HasToken(auth) THEN auth.token ELSE Undefined,
     authorization |-> IF HasToken(auth)
                       THEN auth.tokenType \o <<" ">> \o auth.token
                       ELSE Undefined,
     xApiKey       |-> IF Truthy(apiKey) THEN apiKey ELSE Undefined]

\* getAwsRequestHeaders(auth), reading process.env.AWS_API_KEY; a header that
\* is not set is Undefined
getAwsRequestHeaders(auth, apiKey) ==
    [contentType   |-> "application/json",
     authToken     |-> IF HasToken(auth) THEN auth.token ELSE Undefined,
     authorization |-> IF HasToken(auth)
                       THEN OrElse(auth.tokenType, Bearer) \o <<" ">> \o auth.token
                       ELSE Undefined,
     xApiKey       |-> IF Truthy(apiKey) THEN apiKey ELSE Undefined]

\* buildEndpointWithPath(baseUrl, desiredPath)
buildEndpointWithPath(baseUrl, desiredPath) ==
    LET normalizedPath == IF StartsWith(desiredPath, <<"/">>) THEN desiredPath
                          ELSE <<"/">> \o desiredPath
        urlObj == ParseUrl(baseUrl)
        match  == MatchSchemeHost(baseUrl)
    IN  IF urlObj.ok THEN UrlOrigin(urlObj) \o normalizedPath
        ELSE IF match # Undefined THEN match \o normalizedPath
        ELSE baseUrl \o normalizedPath

\* endpointBase of sendToAwsEndpoint
EndpointBase(e) == OrElse(e.AWS_ENDPOINT, AWS_ENDPOINT)

\* endpointPath of sendToAwsEndpoint
EndpointPath(e) == Trim(OrElse(e.AWS_ENDPOINT_PATH, OrElse(AWS_ENDPOINT_PATH, <<>>)))

\* awsEndpoint of sendToAwsEndpoint: the endpoint the primary POST goes to
ResolveEndpoint(e) ==
    LET endpointBase == EndpointBase(e)
        endpointPath == EndpointPath(e)
        urlHasPath   == Includes(endpointBase, "/", 8)
    IN  IF endpointPath # <<>> THEN buildEndpointWithPath(endpointBase, endpointPath)
        ELSE IF ~urlHasPath THEN endpointBase \o AWS_ENDPOINT_PATH
        ELSE endpointBase

\* variant: a sixth alternate, /hook, is tried
alternativePaths_Six ==
    << <<"/", "a", "p", "i">>,
       <<"/", "d", "a", "t", "a">>,
       <<"/", "w", "e", "b", "h", "o", "o", "k">>,
       <<"/", "p", "o", "s", "t">>,
       <<"/", "s", "u", "b", "m", "i", "t">>,
       <<"/", "h", "o", "o", "k">> >>

\* variant: /data is tried before /api
alternativePaths_Swapped ==
    << <<"/", "d", "a", "t", "a">>,
       <<"/", "a", "p", "i">>,
       <<"/", "w", "e", "b", "h", "o", "o", "k">>,
       <<"/", "p", "o", "s", "t">>,
       <<"/", "s", "u", "b", "m", "i", "t">> >>

\* alternativePaths of sendToAwsEndpoint
alternativePaths ==
    << <<"/", "a", "p", "i">>,
       <<"/", "d", "a", "t", "a">>,
       <<"/", "w", "e", "b", "h", "o", "o", "k">>,
       <<"/", "p", "o", "s", "t">>,
       <<"/", "s", "u", "b", "m", "i", "t">> >>

\* baseUrl of the 404 fallback, extracted from the primary endpoint
AltBaseUrl(awsEp) ==
    LET urlObj == ParseUrl(awsEp)
        match  == MatchSchemeHost(awsEp)
    IN  IF urlObj.ok THEN UrlOrigin(urlObj)
        ELSE IF match # Undefined THEN match
        ELSE FirstThreeParts(awsEp)

\* variant: every turn of the loop posts to the first alternate
AltEndpoint_Same(awsEp, i) == AltBaseUrl(awsEp) \o alternativePaths[1]

\* altEndpoint of the i-th turn of the fallback loop
AltEndpoint(awsEp, i) == AltBaseUrl(awsEp) \o alternativePaths[i]

\* variant: only the first POST's 404 starts the fallback
FallbackEligible_FirstPostOnly(err, e) ==
    err.status = 404 /\ err.from = "primary" /\ ~Truthy(e.AWS_ENDPOINT_PATH)

\* the guard of the 404 fallback: errorAfterRetry.response?.status === 404
\* && !process.env.AWS_ENDPOINT_PATH
FallbackEligible(err, e) == err.status = 404 /\ ~Truthy(e.AWS_ENDPOINT_PATH)

\* variant: a 500 is retried as well
RetryEligible_ServerError(err) == err.status = 401 \/ err.status = 500

\* the guard of the refresh-and-retry: awsError.response?.status === 401
RetryEligible(err) == err.status = 401

(***************************************************************************)
(* The outside world: environment variables, HTTP outcomes                 *)
(***************************************************************************)
\* number of distinct access tokens the token endpoint can hand out
MaxTokens == 2

\* the length of an access token: longer than what the previews show of it
TokenLen == 24

Token(i) == <<"t", "k", ToString(i)>> \o [j \in 1..(TokenLen - 3) |-> "x"]
Tokens == {Token(i) : i \in 1..MaxTokens}

\* error.response is undefined: a transport failure, or an Error that is no
\* HTTP error
NoResponse == 0

\* axios resolves on a 2xx status and rejects on every other outcome
Is2xx(st) == st >= 200 /\ st < 300

DeliveryStatuses == {200, 201, 401, 404, 500, NoResponse}

\* variant: without the timeout a request that reaches no server never ends
PostOutcomes_NoTimeout(ep) == IF ParseUrl(ep).ok THEN DeliveryStatuses ELSE {}

\* outcomes of axios.post(ep, ...): a URL that does not parse reaches no server
PostOutcomes(ep) == IF ParseUrl(ep).ok THEN DeliveryStatuses ELSE {NoResponse}

\* values of process.env.AWS_ENDPOINT
EnvEndpoints ==
    { Undefined,
      HttpsPrefix \o <<"h", ".", "i", "o">>,
      HttpsPrefix \o <<"h", ".", "i", "o", "/", "v", "1">>,
      HttpPrefix \o <<"h", "/", "v">>,
      HttpPrefix \o <<"h", ":", "8", "/", "v">>,
      HttpPrefix \o <<"h", ":", "x">>,
      <<"h", ".", "i", "o">> }

\* values of process.env.AWS_ENDPOINT_PATH
EnvPaths == { Undefined, <<>>, <<" ", " ">>, <<"/", "x">>, <<"x">> }

\* values of process.env.AWS_API_KEY
EnvApiKeys == { Undefined, <<"k">> }

\* values of process.env.COGNITO_CLIENT_SECRET_B64
EnvSecrets == { Undefined, <<" ">>, <<"c", "2", "U", "=">> }

Environments ==
    [AWS_ENDPOINT : EnvEndpoints, AWS_ENDPOINT_PATH : EnvPaths,
     AWS_API_KEY : EnvApiKeys, COGNITO_TOKEN_URL : {Undefined},
     COGNITO_CLIENT_ID : {Undefined}, COGNITO_CLIENT_SECRET_B64 : EnvSecrets]

\* what the token endpoint answers: an HTTP status, and for a 2xx the body
TokenResponses ==
    [status : {NoResponse, 400, 401, 404, 500}, hasData : {FALSE},
     access_token : {Undefined}, token_type : {Undefined}]
    \cup [status : {200}, hasData : {FALSE}, access_token : {Undefined},
          token_type : {Undefined}]
    \cup [status : {200}, hasData : {TRUE}, access_token : {Undefined, <<>>} \cup Tokens,
          token_type : {Undefined, Bearer}]

\* grants a direct caller of sendToAwsEndpoint may pass
DirectGrants ==
    {NoGrant} \cup [token : {Undefined, <<>>} \cup Tokens, tokenType : {Undefined, Bearer}]

(***************************************************************************)
(* services/cognito.js: resolveClientSecret, tryDecodeBase64               *)
(* Buffer.from(value, 'base64') and toString('base64') work on bytes: a    *)
(* byte string is a sequence of numbers 0..255.  toString('utf8') is       *)
(* modelled on the bytes 0..127, one character each; a byte above 127      *)
(* stands for text that does not encode back to the bytes it came from     *)
(* (the decoder puts U+FFFD in its place).                                 *)
(***************************************************************************)
\* the printable ASCII characters, from code 32 to code 126 (the grave accent,
\* code 96, is written \x96)
Ascii ==
    <<" ", "!", "\"", "#", "$", "%", "&", "'", "(", ")", "*", "+", ",", "-", ".", "/",
      "0", "1", "2", "3", "4", "5", "6", "7", "8", "9", ":", ";", "<", "=", ">", "?",
      "@", "A", "B", "C", "D", "E", "F", "G", "H", "I", "J", "K", "L", "M", "N", "O",
      "P", "Q", "R", "S", "T", "U", "V", "W", "X", "Y", "Z", "[", "\\", "]", "^", "_",
      "\\x96", "a", "b", "c", "d", "e", "f", "g", "h", "i", "j", "k", "l", "m", "n", "o",
      "p", "q", "r", "s", "t", "u", "v", "w", "x", "y", "z", "{", "|", "}", "~">>

\* the character of a byte below 128; a control character is written \x<code>
CharOf(b) == IF b >= 32 /\ b <= 126 THEN Ascii[b - 31] ELSE "\\x" \o ToString(b)

Base64Alphabet ==
    <<"A", "B", "C", "D", "E", "F", "G", "H", "I", "J", "K", "L", "M", "N", "O", "P",
      "Q", "R", "S", "T", "U", "V", "W", "X", "Y", "Z", "a", "b", "c", "d", "e", "f",
      "g", "h", "i", "j", "k", "l", "m", "n", "o", "p", "q", "r", "s", "t", "u", "v",
      "w", "x", "y", "z", "0", "1", "2", "3", "4", "5", "6", "7", "8", "9", "+", "/">>

IsBase64Char(c) == \E i \in 1..Len(Base64Alphabet) : Base64Alphabet[i] = c
Base64Value(c) == (CHOOSE i \in 1..Len(Base64Alphabet) : Base64Alphabet[i] = c) - 1

\* value.replace(/=+$/, '')
StripPadding(s) ==
    IF \A i \in 1..Len(s) : s[i] = "=" THEN <<>>
    ELSE SubSeq(s, 1, CHOOSE i \in 1..Len(s) : s[i] # "=" /\ \A j \in (i + 1)..Len(s) : s[j] = "=")

\* the characters of s that carry base64 data: the decoder skips the others
Base64Data(s) == SelectSeq(s, IsBase64Char)

\* Buffer.from(value, 'base64'): four characters give three bytes, a rest of
\* three gives two, a rest of two gives one, a rest of one gives none
RECURSIVE DecodeGroups(_)
DecodeGroups(d) ==
    IF Len(d) < 2 THEN <<>>
    ELSE LET v1 == Base64Value(d[1])
             v2 == Base64Value(d[2])
             b1 == v1 * 4 + (v2 \div 16)
         IN  IF Len(d) = 2 THEN <<b1>>
             ELSE LET v3 == Base64Value(d[3])
                      b2 == (v2 % 16) * 16 + (v3 \div 4)
                  IN  IF Len(d) = 3 THEN <<b1, b2>>
                      ELSE LET v4 == Base64Value(d[4])
                               b3 == (v3 % 4) * 64 + v4
                           IN  <<b1, b2, b3>> \o DecodeGroups(SubSeq(d, 5, Len(d)))

Base64Decode(s) == DecodeGroups(Base64Data(s))

\* buffer.toString('base64'), with its padding
RECURSIVE Base64Encode(_)
Base64Encode(bytes) ==
    IF bytes = <<>> THEN <<>>
    ELSE LET b1 == bytes[1]
             b2 == IF Len(bytes) >= 2 THEN bytes[2] ELSE 0
             b3 == IF Len(bytes) >= 3 THEN bytes[3] ELSE 0
             c1 == Base64Alphabet[(b1 \div 4) + 1]
             c2 == Base64Alphabet[(b1 % 4) * 16 + (b2 \div 16) + 1]
             c3 == Base64Alphabet[(b2 % 16) * 4 + (b3 \div 64) + 1]
             c4 == Base64Alphabet[(b3 % 64) + 1]
         IN  IF Len(bytes) = 1 THEN <<c1, c2, "=", "=">>
             ELSE IF Len(bytes) = 2 THEN <<c1, c2, c3, "=">>
             ELSE <<c1, c2, c3, c4>> \o Base64Encode(SubSeq(bytes, 4, Len(bytes)))

\* the decoded bytes are text that encodes back to the same bytes
IsAsciiText(bytes) == \A i \in 1..Len(bytes) : bytes[i] <= 127

\* variant: the decoded text is taken without encoding it back
tryDecodeBase64_NoCheck(value) ==
    LET bytes   == Base64Decode(value)
        decoded == [i \in 1..Len(bytes) |-> CharOf(bytes[i])]
    IN  IF bytes = <<>> THEN Undefined ELSE decoded

\* tryDecodeBase64(value): the decoded text, Undefined for null
tryDecodeBase64(value) ==
    LET bytes   == Base64Decode(value)
        decoded == [i \in 1..Len(bytes) |-> CharOf(bytes[i])]
    IN  IF bytes = <<>> THEN Undefined
        ELSE IF ~IsAsciiText(bytes) THEN Undefined
        ELSE IF StripPadding(Base64Encode(bytes)) = StripPadding(value) THEN decoded
        ELSE Undefined

\* resolveClientSecret(secretFromTerraform): Undefined for null
resolveClientSecret(secretFromTerraform) ==
    IF ~Truthy(secretFromTerraform) THEN Undefined
    ELSE LET trimmed == Trim(secretFromTerraform)
             decoded == tryDecodeBase64(trimmed)
         IN  IF Truthy(decoded) THEN decoded ELSE trimmed

(***************************************************************************)
(* services/cognito.js: decodeJwtPayload                                   *)
(***************************************************************************)
\* String.prototype.split(c) for a one-character separator c
RECURSIVE Split(_, _)
Split(s, c) ==
    LET k == FirstAt(s, c, 1)
    IN  IF k > Len(s) THEN <<s>>
        ELSE <<SubSeq(s, 1, k - 1)>> \o Split(SubSeq(s, k + 1, Len(s)), c)

\* JSON values: null, booleans, numbers, strings, arrays, objects
JsNull == [null |-> TRUE]
JsBool(b) == [bool |-> b]
JsNum(n) == [num |-> n]
JsStr(s) == [str |-> s]
JsArr(elems) == [arr |-> elems]
JsObj(members) == [obj |-> members]

\* a parse that ended in a SyntaxError
ParseFail == [ok |-> FALSE, val |-> JsNull, next |-> 0]

\* the text has the word w at position i
Lit(s, i, w) == i + Len(w) - 1 <= Len(s) /\ SubSeq(s, i, i + Len(w) - 1) = w

\* the first position at or after i that holds no whitespace
SkipWs(s, i) ==
    IF \E j \in i..Len(s) : s[j] # " "
    THEN CHOOSE j \in i..Len(s) : s[j] # " " /\ \A k \in i..(j - 1) : s[k] = " "
    ELSE Len(s) + 1

DigitValue(c) == CHOOSE d \in 0..9 : ToString(d) = c

\* the value of a run of digits
RECURSIVE DigitsValue(_)
DigitsValue(ds) ==
    IF ds = <<>> THEN 0
    ELSE 10 * DigitsValue(SubSeq(ds, 1, Len(ds) - 1)) + DigitValue(ds[Len(ds)])

\* the end of the run of digits that starts at i
DigitsEnd(s, i) ==
    IF \E j \in i..Len(s) : s[j] \notin Digits
    THEN (CHOOSE j \in i..Len(s) : s[j] \notin Digits /\ \A k \in i..(j - 1) : s[k] \in Digits) - 1
    ELSE Len(s)

\* a JSON number at position i: an integer, which has no leading zero (the
\* texts that are parsed hold no fraction and no exponent)
ParseNumber(s, i) ==
    LET neg   == s[i] = "-"
        from  == IF neg THEN i + 1 ELSE i
        to    == DigitsEnd(s, from)
        run   == SubSeq(s, from, to)
    IN  IF run = <<>> THEN ParseFail
        ELSE IF Len(run) > 1 /\ run[1] = "0" THEN ParseFail
        ELSE [ok |-> TRUE,
              val |-> JsNum(IF neg THEN 0 - DigitsValue(run) ELSE DigitsValue(run)),
              next |-> to + 1]

\* a JSON string at position i (the texts that are parsed hold no escape)
ParseString(s, i) ==
    LET j == FirstAt(s, "\"", i + 1)
    IN  IF j > Len(s) THEN ParseFail
        ELSE [ok |-> TRUE, val |-> JsStr(SubSeq(s, i + 1, j - 1)), next |-> j + 1]

\* JSON.parse by recursive descent: the value at position i, the elements of
\* an array from position i on, the members of an object from position i on
RECURSIVE ParseValue(_, _), ParseElements(_, _, _), ParseMembers(_, _, _)
ParseValue(s, i) ==
    IF i > Len(s) THEN ParseFail
    ELSE IF Lit(s, i, <<"n", "u", "l", "l">>)
    THEN [ok |-> TRUE, val |-> JsNull, next |-> i + 4]
    ELSE IF Lit(s, i, <<"t", "r", "u", "e">>)
    THEN [ok |-> TRUE, val |-> JsBool(TRUE), next |-> i + 4]
    ELSE IF Lit(s, i, <<"f", "a", "l", "s", "e">>)
    THEN [ok |-> TRUE, val |-> JsBool(FALSE), next |-> i + 5]
    ELSE IF s[i] = "\"" THEN ParseString(s, i)
    ELSE IF s[i] = "-" \/ s[i] \in Digits THEN ParseNumber(s, i)
    ELSE IF s[i] = "["
    THEN LET j == SkipWs(s, i + 1)
         IN  IF j <= Len(s) /\ s[j] = "]"
             THEN [ok |-> TRUE, val |-> JsArr(<<>>), next |-> j + 1]
             ELSE ParseElements(s, j, <<>>)
    ELSE IF s[i] = "{"
    THEN LET j == SkipWs(s, i + 1)
         IN  IF j <= Len(s) /\ s[j] = "}"
             THEN [ok |-> TRUE, val |-> JsObj(<<>>), next |-> j + 1]
             ELSE ParseMembers(s, j, <<>>)
    ELSE ParseFail

ParseElements(s, i, acc) ==
    LET v == ParseValue(s, i)
        j == SkipWs(s, v.next)
    IN  IF ~v.ok THEN ParseFail
        ELSE IF j > Len(s) THEN ParseFail
        ELSE IF s[j] = "]"
        THEN [ok |-> TRUE, val |-> JsArr(Append(acc, v.val)), next |-> j + 1]
        ELSE IF s[j] = ","
        THEN ParseElements(s, SkipWs(s, j + 1), Append(acc, v.val))
        ELSE ParseFail

ParseMembers(s, i, acc) ==
    IF i > Len(s) \/ s[i] # "\"" THEN ParseFail
    ELSE LET k == ParseString(s, i)
             c == SkipWs(s, k.next)
         IN  IF ~k.ok THEN ParseFail
             ELSE IF c > Len(s) \/ s[c] # ":" THEN ParseFail
             ELSE LET v == ParseValue(s, SkipWs(s, c + 1))
                      j == SkipWs(s, v.next)
                      m == Append(acc, [key |-> k.val.str, value |-> v.val])
                  IN  IF ~v.ok THEN ParseFail
                      ELSE IF j > Len(s) THEN ParseFail
                      ELSE IF s[j] = "}"
                      THEN [ok |-> TRUE, val |-> JsObj(m), next |-> j + 1]
                      ELSE IF s[j] = ","
                      THEN ParseMembers(s, SkipWs(s, j + 1), m)
                      ELSE ParseFail

\* JSON.parse(text): the value, or threw for a SyntaxError
JsonParse(text) ==
    LET v == ParseValue(text, SkipWs(text, 1))
    IN  IF v.ok /\ SkipWs(text, v.next) > Len(text)
        THEN [threw |-> FALSE, value |-> v.val]
        ELSE [threw |-> TRUE, value |-> JsNull]

\* Buffer.from(part, 'base64').toString('utf8')
Base64Text(part) ==
    LET bytes == Base64Decode(part)
    IN  [i \in 1..Len(bytes) |-> CharOf(bytes[i])]

\* decodeJwtPayload(token): null for a token of fewer than two parts, else
\* the parsed second part, or the SyntaxError of JSON.parse
decodeJwtPayload(token) ==
    LET parts == Split(token, ".")
    IN  IF Len(parts) < 2 THEN [threw |-> FALSE, value |-> JsNull]
        ELSE JsonParse(Base64Text(parts[2]))

\* tokenClaims of getCognitoAccessToken after its try/catch: null unless
\* decodeJwtPayload returned; what the logging of the claims throws (an exp
\* that is no date) is caught by the same catch, after the assignment
tokenClaims(accessToken) ==
    IF decodeJwtPayload(accessToken).threw THEN JsNull
    ELSE decodeJwtPayload(accessToken).value

(***************************************************************************)
(* services/cognito.js: getCognitoAccessToken                              *)
(***************************************************************************)
\* tokenUrl, clientId and secretFromEnv of getCognitoAccessToken
CognitoConfig(e) ==
    [tokenUrl      |-> OrElse(e.COGNITO_TOKEN_URL, COGNITO_TOKEN_URL),
     clientId      |-> OrElse(e.COGNITO_CLIENT_ID, COGNITO_CLIENT_ID),
     secretFromEnv |-> OrElse(e.COGNITO_CLIENT_SECRET_B64, COGNITO_CLIENT_SECRET_B64)]

\* variant: only the first missing field is named
MissingConfig_FirstOnly(c) ==
    IF ~Truthy(c.tokenUrl) THEN <<"COGNITO_TOKEN_URL">>
    ELSE IF ~Truthy(c.clientId) THEN <<"COGNITO_CLIENT_ID">>
    ELSE IF ~Truthy(c.secretFromEnv) THEN <<"COGNITO_CLIENT_SECRET_B64">>
    ELSE <<>>

\* the names pushed on missing, in order
MissingConfig(c) ==
    (IF ~Truthy(c.tokenUrl) THEN <<"COGNITO_TOKEN_URL">> ELSE <<>>)
    \o (IF ~Truthy(c.clientId) THEN <<"COGNITO_CLIENT_ID">> ELSE <<>>)
    \o (IF ~Truthy(c.secretFromEnv) THEN <<"COGNITO_CLIENT_SECRET_B64">> ELSE <<>>)

\* the error thrown before any request, NoConfigError when none is
NoConfigError == [message |-> "none"]
ConfigError(c) ==
    IF ~Truthy(c.tokenUrl) \/ ~Truthy(c.clientId) \/ ~Truthy(c.secretFromEnv)
    THEN [message |-> "Missing Cognito OAuth configuration", missing |-> MissingConfig(c)]
    ELSE IF ~Truthy(resolveClientSecret(c.secretFromEnv))
    THEN [message |-> "Unable to resolve Cognito client secret"]
    ELSE NoConfigError

\* an error object: the HTTP status of error.response (NoResponse when there
\* is none), error.config.url, and the call it came from
Error(status, url, from) == [status |-> status, url |-> url, from |-> from]
NoError == Error(NoResponse, Undefined, "none")

\* variant: a forced refresh sends one more parameter
TokenRequest_RefreshParam(c, forceRefresh) ==
    [kind |-> "token", url |-> c.tokenUrl, clientId |-> c.clientId,
     clientSecret |-> resolveClientSecret(c.secretFromEnv), refresh |-> forceRefresh]

\* the request of axios.post(tokenUrl, params.toString(), ...)
TokenRequest(c, forceRefresh) ==
    [kind |-> "token", url |-> c.tokenUrl, clientId |-> c.clientId,
     clientSecret |-> resolveClientSecret(c.secretFromEnv)]

\* variant: a token whose payload cannot be decoded makes the call throw
TokenOutcome_DecodeFatal(r, c) ==
    IF Is2xx(r.status) /\ r.hasData /\ Truthy(r.access_token)
       /\ ~decodeJwtPayload(r.access_token).threw
    THEN [ok |-> TRUE,
          grant |-> [token |-> r.access_token,
                     tokenType |-> IF r.token_type = Undefined THEN Bearer ELSE r.token_type,
                     claims |-> tokenClaims(r.access_token)],
          err |-> NoError]
    ELSE [ok |-> FALSE, grant |-> NoGrant,
          err |-> IF Is2xx(r.status) THEN Error(NoResponse, Undefined, "token")
                  ELSE Error(r.status, c.tokenUrl, "token")]

\* variant: every 2xx answer gives a grant, whatever its body holds
TokenOutcome_AnyBody(r, c) ==
    IF Is2xx(r.status)
    THEN [ok |-> TRUE,
          grant |-> [token |-> r.access_token,
                     tokenType |-> IF r.token_type = Undefined THEN Bearer ELSE r.token_type,
                     claims |-> tokenClaims(r.access_token)],
          err |-> NoError]
    ELSE [ok |-> FALSE, grant |-> NoGrant, err |-> Error(r.status, c.tokenUrl, "token")]

\* what getCognitoAccessToken does with the outcome r of its POST: the grant
\* it returns, or the enhancedError it throws.  A 2xx answer without an
\* access_token throws an Error that has neither response nor config.
TokenOutcome(r, c) ==
    IF Is2xx(r.status) /\ r.hasData /\ Truthy(r.access_token)
    THEN [ok |-> TRUE,
          grant |-> [token |-> r.access_token,
                     tokenType |-> IF r.token_type = Undefined THEN Bearer ELSE r.token_type,
                     claims |-> tokenClaims(r.access_token)],
          err |-> NoError]
    ELSE [ok |-> FALSE, grant |-> NoGrant,
          err |-> IF Is2xx(r.status) THEN Error(NoResponse, Undefined, "token")
                  ELSE Error(r.status, c.tokenUrl, "token")]

(***************************************************************************)
(* services/aws-requests.js: requests and results of sendToAwsEndpoint     *)
(***************************************************************************)
\* the request of postToAws(endpoint): axios.post(endpoint, payload, {headers})
\* with the headers built from the grant the closure holds
postToAws(endpoint, auth, e) ==
    [kind |-> "delivery", url |-> endpoint,
     headers |-> getAwsRequestHeaders(auth, e.AWS_API_KEY)]

\* the number of characters postToAws logs of a header: substring(0, 20)
PreviewLen == 20

\* String.prototype.substring(0, n)
Take(s, n) == SubSeq(s, 1, IF Len(s) < n THEN Len(s) ELSE n)

Ellipsis == <<".", ".", ".">>
Missing == <<"M", "I", "S", "S", "I", "N", "G">>

\* authHeader.replace('Bearer ', '') for the headers getAwsRequestHeaders
\* builds: a leading "Bearer " is taken off
TokenPart(authHeader) ==
    IF StartsWith(authHeader, Bearer \o <<" ">>)
    THEN SubSeq(authHeader, Len(Bearer) + 2, Len(authHeader))
    ELSE authHeader

\* the strings postToAws writes to the log about the headers of a request:
\* the previews of auth-token and Authorization, and tokenStartsWith
LoggedByPost(request) ==
    LET authHeader == IF Truthy(request.headers.authorization)
                      THEN request.headers.authorization ELSE <<>>
    IN  { IF Truthy(request.headers.authToken)
          THEN Take(request.headers.authToken, PreviewLen) \o Ellipsis ELSE Missing,
          IF authHeader # <<>> THEN Take(authHeader, PreviewLen) \o Ellipsis ELSE Missing,
          Take(TokenPart(authHeader), PreviewLen) }

\* the strings the 401 branch writes to the log: 'Request headers sent:' with
\* JSON.stringify(awsError.config?.headers), the header values in full
LoggedOn401(request) ==
    {h \in {request.headers.authToken, request.headers.authorization,
            request.headers.xApiKey} : h # Undefined}

\* the grant postToAws builds the retry's headers from, given the grant the
\* invocation started with and the grant the forced refresh returned:
\* postToAws reads cognitoAuth, and refreshedAuth is assigned but never read
RetryAuth(startAuth, refreshed) == startAuth

\* buildErrorDetails(error, endpoint, cognitoAuth)
buildErrorDetails(error, endpoint, auth) ==
    [endpoint   |-> endpoint,
     statusCode |-> error.status,
     cognitoTokenObtained |-> HasToken(auth),
     requestUrl |-> OrElse(error.url, endpoint)]

\* the object returned when the primary POST succeeds
PrimarySuccess(st, ep) ==
    [success |-> TRUE, response |-> [status |-> st], endpoint |-> ep]

\* variant: the retry's success is not marked as a retry
RetrySuccess_NoFlag(st, ep) ==
    [success |-> TRUE, response |-> [status |-> st], endpoint |-> ep]

\* the object returned when the retry POST succeeds
RetrySuccess(st, ep) ==
    [success |-> TRUE, response |-> [status |-> st], endpoint |-> ep,
     retriedWithNewToken |-> TRUE]

\* the object returned when an alternate POST succeeds
AltSuccess(st, altEp) ==
    [success |-> TRUE, response |-> [status |-> st], endpoint |-> altEp]

\* variant: the Failure names the last alternate as its endpoint
FailureResult_LastAlternate(err, awsEp, auth) ==
    [success |-> FALSE, error |-> buildErrorDetails(err, awsEp, auth),
     lastError |-> err, endpoint |-> AltEndpoint(awsEp, Len(alternativePaths))]

\* variant: the Failure carries an error of the last alternate attempt
FailureResult_AlternateError(err, awsEp, auth) ==
    [success |-> FALSE,
     error |-> buildErrorDetails(Error(500, AltEndpoint(awsEp, Len(alternativePaths)), "alt"),
                                 awsEp, auth),
     lastError |-> Error(500, AltEndpoint(awsEp, Len(alternativePaths)), "alt"),
     endpoint |-> awsEp]

\* variant: the Failure carries a response next to its error
FailureResult_Both(err, awsEp, auth) ==
    [success |-> FALSE, error |-> buildErrorDetails(err, awsEp, auth),
     lastError |-> err, endpoint |-> awsEp, response |-> [status |-> err.status]]

\* the object returned when every permitted attempt failed
FailureResult(err, awsEp, auth) ==
    [success |-> FALSE, error |-> buildErrorDetails(err, awsEp, auth),
     lastError |-> err, endpoint |-> awsEp]

NoResult == [none |-> TRUE]

(***************************************************************************)
(* handlers/cloudFunction.js: the responses of extractAndSendGCPInfo       *)
(***************************************************************************)
Methods == {"OPTIONS", "GET", "POST"}

PreflightResponse == [status |-> 204, body |-> [empty |-> TRUE]]

NoProjectResponse ==
    [status |-> 500,
     body |-> [success |-> FALSE,
               error |-> "Could not determine GCP project ID from metadata service"]]

\* variant: the token failure is answered without the cognitoError object
TokenFailureResponse_NoDetails(err) ==
    [status |-> 500,
     body |-> [success |-> FALSE,
               error |-> "Failed to obtain Cognito access token required for AWS API authentication",
               message |-> "The function could not authenticate with Cognito"]]

\* res.status(500).json({success: false, error, cognitoError, message})
TokenFailureResponse(err) ==
    [status |-> 500,
     body |-> [success |-> FALSE,
               error |-> "Failed to obtain Cognito access token required for AWS API authentication",
               cognitoError |-> [responseStatus |-> err.status, requestUrl |-> err.url],
               message |-> "The function could not authenticate with Cognito"]]

\* res.status(200).json({success: true, message, data, awsResponse})
DeliverySuccessResponse(r) ==
    [status |-> 200,
     body |-> [success |-> TRUE, message |-> "Data extracted and sent successfully",
               data |-> "payload",
               awsResponse |-> [status |-> r.response.status,
                                retriedWithNewToken |->
                                    IF "retriedWithNewToken" \in DOMAIN r
                                    THEN r.retriedWithNewToken ELSE FALSE,
                                endpoint |-> r.endpoint]]]

\* variant: the delivery failure is answered with success false
DeliveryFailureResponse_Unsuccessful(r, auth) ==
    [status |-> 200,
     body |-> [success |-> FALSE,
               message |-> "Data extracted successfully but failed to send to AWS",
               data |-> "payload",
               error |-> buildErrorDetails(r.lastError, r.endpoint, auth)]]

\* res.status(200).json({success: true, message, data, error: errorDetails})
DeliveryFailureResponse(r, auth) ==
    [status |-> 200,
     body |-> [success |-> TRUE,
               message |-> "Data extracted successfully but failed to send to AWS",
               data |-> "payload",
               error |-> buildErrorDetails(r.lastError, r.endpoint, auth)]]

\* variant: the catch answers 200
ExceptionResponse_Ok(message) ==
    [status |-> 200, body |-> [success |-> FALSE, error |-> message]]

\* the catch of the handler: res.status(500).json({success: false, error})
ExceptionResponse(message) ==
    [status |-> 500, body |-> [success |-> FALSE, error |-> message]]

MissingTokenMessage == "Cannot send to AWS: Cognito token was not obtained successfully."

(***************************************************************************)
(* State                                                                   *)
(***************************************************************************)
VARIABLES
    env,              \* process.env, fixed for the invocation
    pc,               \* where the invocation stands
    caller,           \* who called sendToAwsEndpoint: "handler" or "direct"
    cognitoAuth,      \* the grant sendToAwsEndpoint was called with
    refreshedAuth,    \* the grant the forced refresh returned
    awsEndpoint,      \* the resolved primary endpoint
    errorAfterRetry,  \* errorAfterRetry (and lastError) of sendToAwsEndpoint
    altIdx,           \* index of the alternate path being tried
    tokOpts,          \* the getCognitoAccessToken call in progress
    tokRet,           \* what that call returned or threw
    inflight,         \* outbound requests whose outcome is awaited
    posts,            \* the delivery POSTs issued so far, in order
    tokenPosts,       \* the POSTs sent to the token endpoint so far, in order
    tokenCalls,       \* the calls of getCognitoAccessToken so far, in order
    result,           \* the value sendToAwsEndpoint returned
    thrown,           \* the message of the Error sendToAwsEndpoint threw
    answers,          \* the status each delivery POST was answered with: of the
                      \* primary, of the retry, of the latest alternate
    responses,        \* the HTTP responses the handler sent, in order
    req,              \* what the handler met: req.method, the project ID, and
                      \* whether a GCP collaborator threw
    fnInput,          \* the argument of a function that is applied on its own
    fnOutput          \* what that function returned

vars == <<env, pc, caller, cognitoAuth, refreshedAuth, awsEndpoint, errorAfterRetry,
          altIdx, tokOpts, tokRet, inflight, posts, tokenPosts, tokenCalls, result,
          thrown, answers, responses, req, fnInput, fnOutput>>

sendVars == <<cognitoAuth, refreshedAuth, awsEndpoint, errorAfterRetry, altIdx,
              posts, result, thrown, answers>>

NoCall == [forceRefresh |-> FALSE, ret |-> "none"]
NoReturn == [ok |-> FALSE, grant |-> NoGrant, err |-> NoError]
NotThrown == "none"
NoRequest == [method |-> "none"]
NoInput == [kind |-> "none"]
NoOutput == [none |-> TRUE]

InitIn(environments) ==
    /\ env \in environments
    /\ pc = "start"
    /\ caller = "none"
    /\ cognitoAuth = NoGrant
    /\ refreshedAuth = NoGrant
    /\ awsEndpoint = Undefined
    /\ errorAfterRetry = NoError
    /\ altIdx = 0
    /\ tokOpts = NoCall
    /\ tokRet = NoReturn
    /\ inflight = {}
    /\ posts = <<>>
    /\ tokenPosts = <<>>
    /\ tokenCalls = <<>>
    /\ result = NoResult
    /\ thrown = NotThrown
    /\ answers = [primary |-> <<>>, retry |-> <<>>, alt |-> <<>>]
    /\ responses = <<>>
    /\ req = NoRequest
    /\ fnInput = NoInput
    /\ fnOutput = NoOutput

Init == InitIn(Environments)

\* the number of outbound requests issued so far
Issued == Len(posts) + Len(tokenPosts)

\* axios.post(...) is called: request r goes out as outbound request number n
Sent(fl, r, n) == fl \cup {[n |-> n, req |-> r]}

\* variant: a request that completed stays in flight
Completed_Never(fl, n) == fl

\* the await of outbound request number n ends, with a response or an error
Completed(fl, n) == {x \in fl : x.n # n}

(***************************************************************************)
(* getCognitoAccessToken(options)                                          *)
(***************************************************************************)
\* the call up to its await, on the values c of tokenUrl, clientId and
\* secretFromEnv: validate the configuration, resolve the secret, send the
\* POST to the token endpoint.  Each value is computed once for the step.
CognitoCallWith(c) ==
    /\ pc = "tok_call"
    /\ tokenCalls' = Append(tokenCalls, [forceRefresh |-> tokOpts.forceRefresh])
    /\ \E config \in {c} :
       \E configError \in {ConfigError(config)} :
          IF configError # NoConfigError
          THEN /\ tokRet' = [ok |-> FALSE, grant |-> NoGrant,
                             err |-> [status |-> NoResponse, url |-> Undefined,
                                      from |-> "config", cause |-> configError]]
               /\ pc' = tokOpts.ret
               /\ UNCHANGED <<inflight, tokenPosts>>
          ELSE \E request \in {TokenRequest(config, tokOpts.forceRefresh)} :
                  /\ inflight' = Sent(inflight, request, Issued + 1)
                  /\ tokenPosts' = Append(tokenPosts, request)
                  /\ pc' = "tok_wait"
                  /\ UNCHANGED tokRet
    /\ UNCHANGED <<env, req, fnInput, fnOutput, caller, tokOpts, responses>>
    /\ UNCHANGED sendVars

\* the call up to its await: validate the configuration, resolve the secret,
\* send the POST to the token endpoint
CognitoCall == CognitoCallWith(CognitoConfig(env))

\* the outcome r of the POST arrives: return the grant or throw enhancedError
CognitoResponseWith(r, c) ==
    /\ pc = "tok_wait"
    /\ tokRet' = TokenOutcome(r, c)
    /\ inflight' = Completed(inflight, Issued)
    /\ pc' = tokOpts.ret
    /\ UNCHANGED <<env, req, fnInput, fnOutput, caller, tokOpts, tokenPosts, tokenCalls, responses>>
    /\ UNCHANGED sendVars

CognitoResponse == \E r \in TokenResponses : CognitoResponseWith(r, CognitoConfig(env))

(***************************************************************************)
(* sendToAwsEndpoint(payload, cognitoAuth)                                 *)
(***************************************************************************)
\* where control goes when sendToAwsEndpoint returns or throws
SendExit == IF caller = "handler" THEN "h_send_ret" ELSE "done"

\* issue postToAws(endpoint) with the headers of grant auth
IssuePost(endpoint, auth, phase) ==
    /\ posts' = Append(posts, [req |-> postToAws(endpoint, auth, env), phase |-> phase])
    /\ inflight' = Sent(inflight, postToAws(endpoint, auth, env), Issued + 1)

\* entry: resolve the endpoint, check the grant, send the primary POST
SendEnter ==
    /\ pc = "s_call"
    /\ awsEndpoint' = ResolveEndpoint(env)
    /\ IF ~HasToken(cognitoAuth)
       THEN /\ thrown' = MissingTokenMessage
            /\ pc' = SendExit
            /\ UNCHANGED <<posts, inflight>>
       ELSE /\ IssuePost(ResolveEndpoint(env), cognitoAuth, "primary")
            /\ pc' = "s_primary_wait"
            /\ UNCHANGED thrown
    /\ UNCHANGED <<env, req, fnInput, fnOutput, caller, cognitoAuth, refreshedAuth, errorAfterRetry, altIdx,
                   tokOpts, tokRet, tokenPosts, tokenCalls, result, answers, responses>>

\* the outcome of the primary POST: success, or the catch up to the refresh
SendPrimaryResponse ==
    /\ pc = "s_primary_wait"
    /\ inflight' = Completed(inflight, Issued)
    /\ \E st \in PostOutcomes(awsEndpoint) :
          /\ answers' = [answers EXCEPT !.primary = <<st>>]
          /\ IF Is2xx(st)
             THEN /\ result' = PrimarySuccess(st, awsEndpoint)
                  /\ pc' = SendExit
                  /\ UNCHANGED <<errorAfterRetry, tokOpts>>
             ELSE /\ errorAfterRetry' = Error(st, awsEndpoint, "primary")
                  /\ UNCHANGED result
                  /\ IF RetryEligible(Error(st, awsEndpoint, "primary"))
                     THEN /\ tokOpts' = [forceRefresh |-> TRUE, ret |-> "s_refresh_ret"]
                          /\ pc' = "tok_call"
                     ELSE /\ pc' = "s_after"
                          /\ UNCHANGED tokOpts
    /\ UNCHANGED <<env, req, fnInput, fnOutput, caller, cognitoAuth, refreshedAuth, awsEndpoint, altIdx, tokRet,
                   posts, tokenPosts, tokenCalls, thrown, responses>>

\* the forced refresh returned or threw: send the retry POST, or go on with
\* the refresh error as errorAfterRetry
SendRefreshReturn ==
    /\ pc = "s_refresh_ret"
    /\ IF tokRet.ok
       THEN /\ refreshedAuth' = tokRet.grant
            /\ IssuePost(awsEndpoint, RetryAuth(cognitoAuth, tokRet.grant), "retry")
            /\ pc' = "s_retry_wait"
            /\ UNCHANGED errorAfterRetry
       ELSE /\ errorAfterRetry' = tokRet.err
            /\ pc' = "s_after"
            /\ UNCHANGED <<refreshedAuth, posts, inflight>>
    /\ UNCHANGED <<env, req, fnInput, fnOutput, caller, cognitoAuth, awsEndpoint, altIdx, tokOpts, tokRet,
                   tokenPosts, tokenCalls, result, thrown, answers, responses>>

\* the outcome of the retry POST
SendRetryResponse ==
    /\ pc = "s_retry_wait"
    /\ inflight' = Completed(inflight, Issued)
    /\ \E st \in PostOutcomes(awsEndpoint) :
          /\ answers' = [answers EXCEPT !.retry = <<st>>]
          /\ IF Is2xx(st)
             THEN /\ result' = RetrySuccess(st, awsEndpoint)
                  /\ pc' = SendExit
                  /\ UNCHANGED errorAfterRetry
             ELSE /\ errorAfterRetry' = Error(st, awsEndpoint, "retry")
                  /\ pc' = "s_after"
                  /\ UNCHANGED result
    /\ UNCHANGED <<env, req, fnInput, fnOutput, caller, cognitoAuth, refreshedAuth, awsEndpoint, altIdx, tokOpts,
                   tokRet, posts, tokenPosts, tokenCalls, thrown, responses>>

\* after the primary attempt failed: start the 404 fallback or return Failure
SendAfterRetry ==
    /\ pc = "s_after"
    /\ IF FallbackEligible(errorAfterRetry, env)
       THEN /\ altIdx' = 1
            /\ IssuePost(AltEndpoint(awsEndpoint, 1), cognitoAuth, "alt")
            /\ pc' = "s_alt_wait"
            /\ UNCHANGED result
       ELSE /\ result' = FailureResult(errorAfterRetry, awsEndpoint, cognitoAuth)
            /\ pc' = SendExit
            /\ UNCHANGED <<altIdx, posts, inflight>>
    /\ UNCHANGED <<env, req, fnInput, fnOutput, caller, cognitoAuth, refreshedAuth, awsEndpoint, errorAfterRetry,
                   tokOpts, tokRet, tokenPosts, tokenCalls, thrown, answers, responses>>

\* the outcome of an alternate POST: success, the next alternate, or Failure
SendAltResponse ==
    /\ pc = "s_alt_wait"
    /\ \E altEndpoint \in {AltEndpoint(awsEndpoint, altIdx)} :
       \E st \in PostOutcomes(altEndpoint) :
          /\ answers' = [answers EXCEPT !.alt = <<st>>]
          /\ IF Is2xx(st)
             THEN /\ result' = AltSuccess(st, altEndpoint)
                  /\ pc' = SendExit
                  /\ inflight' = Completed(inflight, Issued)
                  /\ UNCHANGED <<altIdx, posts>>
             ELSE IF altIdx < Len(alternativePaths)
             THEN \E request \in {postToAws(AltEndpoint(awsEndpoint, altIdx + 1),
                                             cognitoAuth, env)} :
                     /\ altIdx' = altIdx + 1
                     /\ posts' = Append(posts, [req |-> request, phase |-> "alt"])
                     /\ inflight' = Sent(Completed(inflight, Issued), request, Issued + 1)
                     /\ pc' = "s_alt_wait"
                     /\ UNCHANGED result
             ELSE /\ result' = FailureResult(errorAfterRetry, awsEndpoint, cognitoAuth)
                  /\ pc' = SendExit
                  /\ inflight' = Completed(inflight, Issued)
                  /\ UNCHANGED <<altIdx, posts>>
    /\ UNCHANGED <<env, req, fnInput, fnOutput, caller, cognitoAuth, refreshedAuth, awsEndpoint, errorAfterRetry,
                   tokOpts, tokRet, tokenPosts, tokenCalls, thrown, responses>>

\* sendToAwsEndpoint called directly, with any grant
DirectCall ==
    /\ pc = "start"
    /\ \E g \in DirectGrants : cognitoAuth' = g
    /\ caller' = "direct"
    /\ pc' = "s_call"
    /\ UNCHANGED <<env, req, fnInput, fnOutput, refreshedAuth, awsEndpoint, errorAfterRetry, altIdx, tokOpts,
                   tokRet, inflight, posts, tokenPosts, tokenCalls, result, thrown,
                   answers, responses>>

(***************************************************************************)
(* extractAndSendGCPInfo(req, res)                                         *)
(***************************************************************************)
\* the handler up to its call of getCognitoAccessToken(): preflight, project
\* ID, the GCP collaborators (any of which may throw into the catch)
HandlerStart ==
    /\ pc = "start"
    /\ caller' = "handler"
    /\ \E method \in Methods, projectId \in {Undefined, <<"p">>}, gcpThrows \in BOOLEAN :
          /\ req' = [method |-> method, projectId |-> projectId, gcpThrows |-> gcpThrows]
          /\ IF method = "OPTIONS"
             THEN /\ responses' = Append(responses, PreflightResponse)
                  /\ pc' = "done"
                  /\ UNCHANGED tokOpts
             ELSE IF ~Truthy(projectId)
             THEN /\ responses' = Append(responses, NoProjectResponse)
                  /\ pc' = "done"
                  /\ UNCHANGED tokOpts
             ELSE IF gcpThrows
             THEN /\ responses' = Append(responses, ExceptionResponse("collaborator failed"))
                  /\ pc' = "done"
                  /\ UNCHANGED tokOpts
             ELSE /\ tokOpts' = [forceRefresh |-> FALSE, ret |-> "h_token_ret"]
                  /\ pc' = "tok_call"
                  /\ UNCHANGED responses
    /\ UNCHANGED <<env, fnInput, fnOutput, tokRet, inflight, tokenPosts, tokenCalls>>
    /\ UNCHANGED sendVars

\* getCognitoAccessToken() returned or threw
HandlerTokenReturn ==
    /\ pc = "h_token_ret"
    /\ IF tokRet.ok
       THEN /\ cognitoAuth' = tokRet.grant
            /\ pc' = "s_call"
            /\ UNCHANGED responses
       ELSE /\ responses' = Append(responses, TokenFailureResponse(tokRet.err))
            /\ pc' = "done"
            /\ UNCHANGED cognitoAuth
    /\ UNCHANGED <<env, req, fnInput, fnOutput, caller, refreshedAuth, awsEndpoint, errorAfterRetry, altIdx,
                   tokOpts, tokRet, inflight, posts, tokenPosts, tokenCalls, result, thrown,
                   answers>>

\* variant: the success branch lacks its return and falls through to the
\* response of the failure branch
HandlerSendReturn_FallsThrough ==
    /\ pc = "h_send_ret"
    /\ responses' =
          IF thrown # NotThrown THEN Append(responses, ExceptionResponse(thrown))
          ELSE IF result.success
          THEN responses \o <<DeliverySuccessResponse(result),
                                [status |-> 200,
                                 body |-> [success |-> TRUE,
                                           message |-> "Data extracted successfully but failed to send to AWS"]]>>
          ELSE Append(responses, DeliveryFailureResponse(result, cognitoAuth))
    /\ pc' = "done"
    /\ UNCHANGED <<env, req, fnInput, fnOutput, caller, tokOpts, tokRet, inflight, tokenPosts, tokenCalls>>
    /\ UNCHANGED sendVars

\* sendToAwsEndpoint returned or threw
HandlerSendReturn ==
    /\ pc = "h_send_ret"
    /\ responses' = Append(responses,
          IF thrown # NotThrown THEN ExceptionResponse(thrown)
          ELSE IF result.success THEN DeliverySuccessResponse(result)
          ELSE DeliveryFailureResponse(result, cognitoAuth))
    /\ pc' = "done"
    /\ UNCHANGED <<env, req, fnInput, fnOutput, caller, tokOpts, tokRet, inflight, tokenPosts, tokenCalls>>
    /\ UNCHANGED sendVars

Next ==
    \/ HandlerStart
    \/ HandlerTokenReturn
    \/ HandlerSendReturn
    \/ DirectCall
    \/ CognitoCall
    \/ CognitoResponse
    \/ SendEnter
    \/ SendPrimaryResponse
    \/ SendRefreshReturn
    \/ SendRetryResponse
    \/ SendAfterRetry
    \/ SendAltResponse

Spec == Init /\ [][Next]_vars

Done == pc = "done"

\* every outbound request completes within its timeout of 10 seconds, and the
\* code between two awaits runs to the next await: a step that can be taken
\* is taken
\* the environments of the invocations whose termination is checked: an
\* endpoint that answers or one that reaches no server, with and without an
\* override path
LiveEnvironments ==
    [AWS_ENDPOINT : {HttpsPrefix \o <<"h", ".", "i", "o">>, HttpPrefix \o <<"h", ":", "x">>},
     AWS_ENDPOINT_PATH : {Undefined, <<"/", "x">>},
     AWS_API_KEY : {Undefined, <<"k">>}, COGNITO_TOKEN_URL : {Undefined},
     COGNITO_CLIENT_ID : {Undefined}, COGNITO_CLIENT_SECRET_B64 : {<<"s", "!">>}]

LiveInit == InitIn(LiveEnvironments)

LiveSpec == LiveInit /\ [][Next]_vars /\ WF_vars(Next)

(***************************************************************************)
(* The functions applied on their own: resolveClientSecret,                *)
(* getAwsRequestHeaders, and getCognitoAccessToken on given values of its  *)
(* locals tokenUrl, clientId and secretFromEnv                             *)
(***************************************************************************)
\* longest plaintext secret, longest raw secret
MaxPlainLen == 3
MaxRawLen == 4

\* all strings over chars of length at most n
Strings(chars, n) == UNION {[1..k -> chars] : k \in 0..n}

PlainChars == {"a", "Z", " ", "~"}
RawChars == {"Y", "Q", "=", " ", "!"}

\* Buffer.from(s, 'utf8') on a string of ASCII characters
Utf8Bytes(s) ==
    [i \in 1..Len(s) |-> (CHOOSE k \in 1..Len(Ascii) : Ascii[k] = s[i]) + 31]

\* secrets given as the base64 encoding of a plaintext, and secrets given raw
SecretInputs ==
    {[kind |-> "plain", plain |-> s, value |-> Base64Encode(Utf8Bytes(s))] :
        s \in Strings(PlainChars, MaxPlainLen)}
    \cup {[kind |-> "raw", value |-> t] : t \in Strings(RawChars, MaxRawLen)}

\* arguments of getAwsRequestHeaders, and the values of process.env.AWS_API_KEY
HeaderInputs ==
    [kind : {"headers"},
     auth : {NoGrant} \cup [token : {Undefined, <<>>} \cup Tokens,
                            tokenType : {Undefined, <<>>, Bearer, <<"M", "A", "C">>}],
     apiKey : {Undefined, <<>>, <<"k">>}]

\* values of tokenUrl, clientId and secretFromEnv
ConfigInputs ==
    [kind : {"config"},
     config : [tokenUrl : {Undefined, <<>>, COGNITO_TOKEN_URL},
               clientId : {Undefined, <<>>, COGNITO_CLIENT_ID},
               secretFromEnv : {Undefined, <<>>, <<" ">>, <<"c", "2", "U", "=">>,
                                COGNITO_CLIENT_SECRET_B64}]]

\* texts of a JWT payload: {}, {"a":1}, null, 5, {"exp":"x"}, and the
\* unterminated {
PayloadTexts ==
    { <<"{", "}">>,
      <<"{", "\"", "a", "\"", ":", "1", "}">>,
      <<"n", "u", "l", "l">>,
      <<"5">>,
      <<"{", "\"", "e", "x", "p", "\"", ":", "\"", "x", "\"", "}">>,
      <<"{">> }

\* the token h.<payload>.s whose payload is the base64 of text, unpadded
JwtOf(text) ==
    <<"h", ".">> \o StripPadding(Base64Encode(Utf8Bytes(text))) \o <<".", "s">>

\* access tokens: opaque ones, JWTs, and strings with dots that are no JWT
AccessTokens ==
    Tokens \cup {JwtOf(t) : t \in PayloadTexts}
    \cup { <<".">>, <<"a", ".">>, <<"a", ".", "!", "!">>, <<"h", ".", "e", "3", "0">> }

\* what the token endpoint answers to one exchange
ExchangeResponses ==
    [status : {NoResponse, 400, 401, 404, 500}, hasData : {FALSE},
     access_token : {Undefined}, token_type : {Undefined}]
    \cup [status : {200}, hasData : {FALSE}, access_token : {Undefined},
          token_type : {Undefined}]
    \cup [status : {200}, hasData : {TRUE},
          access_token : {Undefined, <<>>} \cup AccessTokens,
          token_type : {Undefined, Bearer}]

\* two calls of getCognitoAccessToken in one process, one of them with
\* forceRefresh, on the same tokenUrl, clientId and secretFromEnv, and what
\* the token endpoint answers to each
ExchangeInputs ==
    [kind : {"exchange"},
     config : [tokenUrl : {COGNITO_TOKEN_URL},
               clientId : {Undefined, COGNITO_CLIENT_ID},
               secretFromEnv : {<<"c", "2", "U", "=">>, COGNITO_CLIENT_SECRET_B64}],
     first : ExchangeResponses,
     second : ExchangeResponses,
     forcedFirst : BOOLEAN]

\* the environment with nothing set
EmptyEnv ==
    [AWS_ENDPOINT |-> Undefined, AWS_ENDPOINT_PATH |-> Undefined,
     AWS_API_KEY |-> Undefined, COGNITO_TOKEN_URL |-> Undefined,
     COGNITO_CLIENT_ID |-> Undefined, COGNITO_CLIENT_SECRET_B64 |-> Undefined]

FnInit ==
    /\ fnInput \in SecretInputs \cup HeaderInputs \cup ConfigInputs \cup ExchangeInputs
    /\ fnOutput = NoOutput
    /\ env = EmptyEnv
    /\ pc = IF fnInput.kind \in {"config", "exchange"} THEN "tok_call" ELSE "start"
    /\ tokOpts = IF fnInput.kind = "exchange"
                 THEN [forceRefresh |-> fnInput.forcedFirst, ret |-> "fn_first"]
                 ELSE [forceRefresh |-> FALSE, ret |-> "done"]
    /\ caller = "none"
    /\ cognitoAuth = NoGrant
    /\ refreshedAuth = NoGrant
    /\ awsEndpoint = Undefined
    /\ errorAfterRetry = NoError
    /\ altIdx = 0
    /\ tokRet = NoReturn
    /\ inflight = {}
    /\ posts = <<>>
    /\ tokenPosts = <<>>
    /\ tokenCalls = <<>>
    /\ result = NoResult
    /\ thrown = NotThrown
    /\ answers = [primary |-> <<>>, retry |-> <<>>, alt |-> <<>>]
    /\ responses = <<>>
    /\ req = NoRequest

\* resolveClientSecret(secretFromTerraform)
FnResolveSecret ==
    /\ fnInput.kind \in {"plain", "raw"}
    /\ fnOutput = NoOutput
    /\ fnOutput' = [value |-> resolveClientSecret(fnInput.value)]
    /\ UNCHANGED <<env, req, fnInput, caller, tokOpts, tokRet, inflight, tokenPosts,
                   tokenCalls, responses, pc>>
    /\ UNCHANGED sendVars

\* getAwsRequestHeaders(auth)
FnBuildHeaders ==
    /\ fnInput.kind = "headers"
    /\ fnOutput = NoOutput
    /\ fnOutput' = [value |-> getAwsRequestHeaders(fnInput.auth, fnInput.apiKey)]
    /\ UNCHANGED <<env, req, fnInput, caller, tokOpts, tokRet, inflight, tokenPosts,
                   tokenCalls, responses, pc>>
    /\ UNCHANGED sendVars

\* getCognitoAccessToken() up to its await
FnGetToken ==
    /\ fnInput.kind \in {"config", "exchange"}
    /\ CognitoCallWith(fnInput.config)

\* getCognitoAccessToken() from its await on: the first call gets the first
\* answer, the second call the second
FnTokenResponse ==
    /\ fnInput.kind = "exchange"
    /\ CognitoResponseWith(IF fnOutput = NoOutput THEN fnInput.first ELSE fnInput.second,
                           fnInput.config)

\* the first call returned or threw: keep what it did, make the second call
FnSecondCall ==
    /\ pc = "fn_first"
    /\ fnOutput' = [first |-> tokRet, posts |-> tokenPosts]
    /\ tokOpts' = [forceRefresh |-> ~fnInput.forcedFirst, ret |-> "done"]
    /\ pc' = "tok_call"
    /\ UNCHANGED <<env, req, fnInput, caller, tokRet, inflight, tokenPosts,
                   tokenCalls, responses>>
    /\ UNCHANGED sendVars

FnNext ==
    \/ FnResolveSecret
    \/ FnBuildHeaders
    \/ FnGetToken
    \/ FnTokenResponse
    \/ FnSecondCall

FnSpec == FnInit /\ [][FnNext]_vars

(***************************************************************************)
(* Vocabulary of the properties                                            *)
(***************************************************************************)
\* the delivery POSTs of one phase, in the order they were issued
PostsOf(phase) == SelectSeq(posts, LAMBDA p : p.phase = phase)

\* the number of getCognitoAccessToken calls made with forceRefresh = true
ForcedRefreshCount == Cardinality({i \in DOMAIN tokenCalls : tokenCalls[i].forceRefresh})

\* sendToAwsEndpoint was entered / has returned or thrown
SendEntered == awsEndpoint # Undefined
SendExited == thrown # NotThrown \/ result # NoResult

\* the grant sendToAwsEndpoint was given is absent or carries no token
Tokenless ==
    \/ cognitoAuth = NoGrant
    \/ cognitoAuth.token = Undefined
    \/ cognitoAuth.token = <<>>

\* a status list holds one 2xx status
Answered2xx(a) == a # <<>> /\ a[1] >= 200 /\ a[1] <= 299

\* the primary attempt (the first POST, or its retry after a refresh) ended
\* in HTTP 404
PrimaryAttemptEnded404 ==
    \/ answers.retry = <<404>>
    \/ answers.primary = <<404>> /\ answers.retry = <<>>

\* no override path is configured in the environment
NoOverrideConfigured == env.AWS_ENDPOINT_PATH = Undefined \/ env.AWS_ENDPOINT_PATH = <<>>

\* scheme://host[:port] of a URL: all of it up to the first '/' after "//"
SchemeHostPort(url) == SubSeq(url, 1, FirstAt(url, "/", SchemeLen(url) + 1) - 1)

ExpectedAlternates ==
    << <<"/", "a", "p", "i">>, <<"/", "d", "a", "t", "a">>,
       <<"/", "w", "e", "b", "h", "o", "o", "k">>, <<"/", "p", "o", "s", "t">>,
       <<"/", "s", "u", "b", "m", "i", "t">> >>

\* the result is a Success returned by the retry
IsRetrySuccess(r) ==
    /\ r # NoResult
    /\ r.success
    /\ "retriedWithNewToken" \in DOMAIN r
    /\ r.retriedWithNewToken = TRUE

(***************************************************************************)
(* C1 (as stated): whenever the first POST is answered with 401, the token *)
(* provider is called with forceRefresh = true exactly once and exactly    *)
(* one retry POST goes to the same endpoint; a 2xx retry gives Success     *)
(* with retriedWithNewToken = true and the resolved endpoint.              *)
(***************************************************************************)
C1_AlwaysOneRetry ==
    (SendExited /\ answers.primary = <<401>>) =>
        /\ ForcedRefreshCount = 1
        /\ Len(PostsOf("retry")) = 1
        /\ PostsOf("retry")[1].req.url = posts[1].req.url
        /\ Answered2xx(answers.retry) =>
              IsRetrySuccess(result) /\ result.endpoint = posts[1].req.url

(***************************************************************************)
(* C1 (amended): whenever the first POST is answered with 401, the token   *)
(* provider is called with forceRefresh = true exactly once; exactly one   *)
(* retry POST goes to the same endpoint when that refresh returns a grant, *)
(* and none when it fails; a 2xx retry gives Success with                  *)
(* retriedWithNewToken = true and the resolved endpoint.                   *)
(***************************************************************************)
C1_RetryOnceAfterRefresh ==
    /\ ForcedRefreshCount <= 1
    /\ Len(PostsOf("retry")) <= 1
    /\ ForcedRefreshCount = 1 => answers.primary = <<401>>
    /\ (SendExited /\ answers.primary = <<401>>) =>
          /\ ForcedRefreshCount = 1
          /\ IF tokRet.ok
             THEN /\ Len(PostsOf("retry")) = 1
                  /\ PostsOf("retry")[1].req.url = posts[1].req.url
             ELSE PostsOf("retry") = <<>>
          /\ Answered2xx(answers.retry) =>
                IsRetrySuccess(result) /\ result.endpoint = posts[1].req.url

C1_Witness ==
    /\ answers.primary = <<401>>
    /\ Answered2xx(answers.retry)
    /\ IsRetrySuccess(result)

(***************************************************************************)
(* C2: the retry POST issued after a 401 and a successful forced refresh   *)
(* carries the token of the newly returned grant in its auth-token and     *)
(* Authorization headers, not the token the invocation started with.       *)
(***************************************************************************)
C2_RetryCarriesNewToken ==
    \A i \in DOMAIN posts :
        posts[i].phase = "retry" =>
            /\ posts[i].req.headers.authToken = refreshedAuth.token
            /\ posts[i].req.headers.authorization
                  = refreshedAuth.tokenType \o <<" ">> \o refreshedAuth.token

(***************************************************************************)
(* C3: when the primary attempt ends in 404 and no override path is        *)
(* configured, the alternates are POSTed in the order /api, /data,         *)
(* /webhook, /post, /submit, each appended to scheme://host[:port] of the  *)
(* resolved endpoint; the first 2xx stops the loop and the result is       *)
(* Success with that alternate's URL.                                      *)
(***************************************************************************)
C3_AlternatesInOrder ==
    LET alts == PostsOf("alt")
    IN  /\ Len(alts) <= Len(ExpectedAlternates)
        /\ \A k \in 1..Len(alts) :
              alts[k].req.url = SchemeHostPort(posts[1].req.url) \o ExpectedAlternates[k]
        /\ (pc = "s_alt_wait" /\ Len(alts) >= 2) => ~Answered2xx(answers.alt)
        /\ (SendExited /\ PrimaryAttemptEnded404 /\ NoOverrideConfigured) =>
              /\ Len(alts) >= 1
              /\ answers.alt # <<>>
              /\ IF Answered2xx(answers.alt)
                 THEN /\ result.success
                      /\ result.endpoint = alts[Len(alts)].req.url
                 ELSE Len(alts) = Len(ExpectedAlternates)

C3_Witness ==
    /\ PrimaryAttemptEnded404
    /\ NoOverrideConfigured
    /\ Len(PostsOf("alt")) = 3
    /\ Answered2xx(answers.alt)
    /\ result # NoResult
    /\ result.success

(***************************************************************************)
(* C4 (as stated): when the fallback ran and none of the five alternates   *)
(* returned 2xx, the Failure reports the last alternate tried as endpoint. *)
(***************************************************************************)
C4_FailureReportsLastAlternate ==
    (result # NoResult /\ ~result.success /\ Len(PostsOf("alt")) = 5) =>
        result.endpoint = PostsOf("alt")[5].req.url

(***************************************************************************)
(* C4 (amended): when the fallback ran and none of the five alternates     *)
(* returned 2xx, the Failure reports the primary (resolved) endpoint as    *)
(* endpoint, in the result and in its error details, not an alternate.     *)
(***************************************************************************)
C4_FailureReportsPrimary ==
    (result # NoResult /\ ~result.success /\ Len(PostsOf("alt")) = 5) =>
        /\ result.endpoint = posts[1].req.url
        /\ result.error.endpoint = posts[1].req.url
        /\ result.endpoint # PostsOf("alt")[5].req.url

C4_Witness ==
    /\ result # NoResult
    /\ ~result.success
    /\ Len(PostsOf("alt")) = 5
    /\ ~Answered2xx(answers.alt)

(***************************************************************************)
(* C5: when the primary endpoint was built from an override path (the      *)
(* branch that calls buildEndpointWithPath), no POST goes to an alternate  *)
(* path, whatever the primary endpoint answers.                            *)
(***************************************************************************)
C5_OverrideMeansNoAlternates ==
    EndpointPath(env) # <<>> => PostsOf("alt") = <<>>

(***************************************************************************)
(* C6: when sendToAwsEndpoint is invoked with no grant or with a grant     *)
(* whose token is empty, no outbound request is issued in that invocation: *)
(* no delivery POST, no call of the token provider, no POST to the token   *)
(* endpoint, nothing in flight.                                            *)
(***************************************************************************)
C6_NoRequestWithoutToken ==
    (caller = "direct" /\ Tokenless) =>
        /\ posts = <<>>
        /\ tokenCalls = <<>>
        /\ tokenPosts = <<>>
        /\ inflight = {}

C6_Witness ==
    /\ caller = "direct"
    /\ cognitoAuth # NoGrant
    /\ cognitoAuth.token = <<>>
    /\ SendExited
    /\ posts = <<>>

(***************************************************************************)
(* C7 (as stated): when sendToAwsEndpoint is invoked with no grant or a    *)
(* tokenless grant, the caller receives a Failure result value and no      *)
(* exception is thrown.                                                    *)
(***************************************************************************)
C7_TokenlessGivesFailureResult ==
    (SendExited /\ Tokenless) =>
        /\ thrown = NotThrown
        /\ result # NoResult
        /\ ~result.success

(***************************************************************************)
(* C7 (amended): when sendToAwsEndpoint is invoked with no grant or a      *)
(* tokenless grant, it throws an Error whose message says that the Cognito *)
(* token was not obtained, and returns no result value.                    *)
(***************************************************************************)
C7_TokenlessThrows ==
    /\ (SendEntered /\ Tokenless) => SendExited
    /\ (SendExited /\ Tokenless) =>
          /\ thrown = "Cannot send to AWS: Cognito token was not obtained successfully."
          /\ result = NoResult

C7_Witness ==
    /\ caller = "direct"
    /\ cognitoAuth = NoGrant
    /\ SendEntered
    /\ thrown # NotThrown

\* a result is a Success with a response and no error, or a Failure with an
\* error and no response
WellFormed(r) ==
    /\ r # NoResult
    /\ IF r.success
       THEN "response" \in DOMAIN r /\ "error" \notin DOMAIN r
       ELSE "error" \in DOMAIN r /\ "response" \notin DOMAIN r

HandlerAnsweredFailure ==
    /\ caller = "handler"
    /\ pc = "done"
    /\ result # NoResult
    /\ ~result.success

(***************************************************************************)
(* C9 (as stated): when delivery ends in Failure, the handler responds     *)
(* with HTTP 200 and a body whose success field is false and which holds   *)
(* an error object.                                                        *)
(***************************************************************************)
C9_FailureIs200SuccessFalse ==
    HandlerAnsweredFailure =>
        /\ Len(responses) = 1
        /\ responses[1].status = 200
        /\ responses[1].body.success = FALSE
        /\ "error" \in DOMAIN responses[1].body

(***************************************************************************)
(* C9 (amended): when delivery ends in Failure, the handler responds once, *)
(* with HTTP 200 and a body whose success field is true, whose message     *)
(* says that sending to AWS failed, and which holds an error object with   *)
(* the status of the failed attempt.                                       *)
(***************************************************************************)
C9_FailureIs200SuccessTrue ==
    HandlerAnsweredFailure =>
        /\ Len(responses) = 1
        /\ responses[1].status = 200
        /\ responses[1].body.success = TRUE
        /\ responses[1].body.message
              = "Data extracted successfully but failed to send to AWS"
        /\ "error" \in DOMAIN responses[1].body
        /\ responses[1].body.error.statusCode = result.lastError.status

C9_Witness ==
    /\ HandlerAnsweredFailure
    /\ Len(responses) = 1
    /\ responses[1].status = 200
    /\ result.lastError.status = 500

\* the handler's own call of getCognitoAccessToken() has failed
InitialTokenFailed ==
    /\ caller = "handler"
    /\ Len(tokenCalls) = 1
    /\ ~tokenCalls[1].forceRefresh
    /\ tokRet # NoReturn
    /\ ~tokRet.ok

(***************************************************************************)
(* C10: when the handler's initial token acquisition fails, the handler    *)
(* responds once, with HTTP 500, success false and a cognitoError object,  *)
(* and no delivery POST is issued in that invocation.                      *)
(***************************************************************************)
C10_TokenFailureIs500 ==
    InitialTokenFailed =>
        /\ posts = <<>>
        /\ ~SendEntered
        /\ pc \in {"h_token_ret", "done"}
        /\ pc = "done" =>
              /\ Len(responses) = 1
              /\ responses[1].status = 500
              /\ responses[1].body.success = FALSE
              /\ "cognitoError" \in DOMAIN responses[1].body
              /\ responses[1].body.cognitoError.responseStatus = tokRet.err.status

C10_Witness ==
    /\ InitialTokenFailed
    /\ pc = "done"
    /\ tokRet.err.status = 400
    /\ Len(responses) = 1
    /\ responses[1].status = 500

\* a call of the token provider has failed: the latest call threw
TokenCallFailed == tokRet # NoReturn /\ ~tokRet.ok

(***************************************************************************)
(* C11: whenever a call of the token provider fails, be it the initial     *)
(* acquisition or the forced refresh after a 401, no delivery POST is      *)
(* issued after that failure (no retry, no alternate), and the handler     *)
(* answers the invocation with a 500-class response whose success field    *)
(* is false.                                                               *)
(***************************************************************************)
C11_TokenFailureIsFatal ==
    TokenCallFailed =>
        /\ PostsOf("retry") = <<>>
        /\ PostsOf("alt") = <<>>
        /\ (caller = "handler" /\ pc = "done") =>
              /\ Len(responses) = 1
              /\ responses[1].status >= 500
              /\ responses[1].body.success = FALSE

\* the handler has answered a request that is no preflight
HandlerAnswered == caller = "handler" /\ pc = "done" /\ req.method # "OPTIONS"

\* the project ID could not be determined
NoProjectId == req.projectId = Undefined \/ req.projectId = <<>>

\* an exception reached the catch of the handler: a GCP collaborator threw,
\* or sendToAwsEndpoint threw
UnexpectedException == (~NoProjectId /\ req.gcpThrows) \/ thrown # NotThrown

(***************************************************************************)
(* C12: for a request that is no preflight the handler responds once, with *)
(* 500 exactly when the project ID cannot be determined, the initial token *)
(* cannot be obtained or an unexpected exception occurs, and with 200 in   *)
(* every other case, whatever the delivery outcome; when the project ID    *)
(* cannot be determined neither the token endpoint nor the delivery        *)
(* endpoint is contacted.                                                  *)
(***************************************************************************)
C12_500OnlyForProjectTokenException ==
    HandlerAnswered =>
        /\ Len(responses) = 1
        /\ responses[1].status \in {200, 500}
        /\ responses[1].status = 500
              <=> (NoProjectId \/ InitialTokenFailed \/ UnexpectedException)
        /\ NoProjectId =>
              (tokenCalls = <<>> /\ tokenPosts = <<>> /\ posts = <<>> /\ inflight = {})

C12_Witness ==
    /\ HandlerAnswered
    /\ NoProjectId
    /\ req.gcpThrows
    /\ responses = <<NoProjectResponse>>

(***************************************************************************)
(* C13: getCognitoAccessToken never returns a grant whose token is empty   *)
(* or missing: whatever the token endpoint answers, the call either        *)
(* returns a grant with a non-empty token or throws and returns no grant;  *)
(* so the handler never enters sendToAwsEndpoint with a tokenless grant.   *)
(***************************************************************************)
C13_GrantHasToken ==
    /\ tokRet # NoReturn =>
          IF tokRet.ok
          THEN /\ tokRet.grant # NoGrant
               /\ tokRet.grant.token # Undefined
               /\ Len(tokRet.grant.token) > 0
          ELSE tokRet.grant = NoGrant
    /\ (caller = "handler" /\ SendEntered) => ~Tokenless

\* a 2xx answer without a usable access_token made the call throw
C13_Witness ==
    /\ tokenPosts # <<>>
    /\ ~tokRet.ok
    /\ tokRet.grant = NoGrant
    /\ tokRet.err.from = "token"
    /\ tokRet.err.url = Undefined

\* a configuration value is missing: undefined or the empty string
Absent(v) == v = Undefined \/ v = <<>>

\* getCognitoAccessToken was applied to the configuration in fnInput
ConfigApplied == fnInput.kind = "config" /\ tokenCalls # <<>>

\* the names of the configuration fields that are missing in fnInput
MissingNames ==
    (IF Absent(fnInput.config.tokenUrl) THEN <<"COGNITO_TOKEN_URL">> ELSE <<>>)
    \o (IF Absent(fnInput.config.clientId) THEN <<"COGNITO_CLIENT_ID">> ELSE <<>>)
    \o (IF Absent(fnInput.config.secretFromEnv)
        THEN <<"COGNITO_CLIENT_SECRET_B64">> ELSE <<>>)

SecretResolved == fnInput.kind \in {"plain", "raw"} /\ fnOutput # NoOutput

\* t holds a character that is neither of the base64 alphabet nor padding
HasNonBase64Char(t) == \E i \in 1..Len(t) : ~IsBase64Char(t[i]) /\ t[i] # "="

\* t, once trimmed and its trailing padding taken off, still holds a character
\* outside the base64 alphabet
TrimmedHasNonBase64Char(t) ==
    \E i \in 1..Len(StripPadding(Trim(t))) : ~IsBase64Char(StripPadding(Trim(t))[i])

\* the non-empty plaintexts whose base64 encoding is t trimmed, padding aside
PlaintextsOf(t) ==
    {s \in Strings(PlainChars, MaxPlainLen) :
        /\ s # <<>>
        /\ StripPadding(Base64Encode(Utf8Bytes(s))) = StripPadding(Trim(t))}

(***************************************************************************)
(* C15 (as stated): resolveClientSecret(base64encode(s)) = s for every     *)
(* plaintext s, and resolveClientSecret(t) = t trimmed for every t that    *)
(* holds a character outside the base64 alphabet.                          *)
(***************************************************************************)
C15_SecretRoundTrip ==
    SecretResolved =>
        /\ fnInput.kind = "plain" => fnOutput.value = fnInput.plain
        /\ (fnInput.kind = "raw" /\ HasNonBase64Char(fnInput.value)) =>
              fnOutput.value = Trim(fnInput.value)

(***************************************************************************)
(* C15 (amended): resolveClientSecret(base64encode(s)) = s for every       *)
(* non-empty plaintext s, and it is null for the empty one; the argument   *)
(* is trimmed before it is tested, so resolveClientSecret(t) = t trimmed   *)
(* for every t whose trimmed form, trailing padding aside, holds a         *)
(* character outside the base64 alphabet, while a t that is the base64     *)
(* encoding of a non-empty plaintext surrounded by spaces gives that       *)
(* plaintext.                                                              *)
(***************************************************************************)
C15_RoundTripAfterTrim ==
    SecretResolved =>
        /\ (fnInput.kind = "plain" /\ fnInput.plain # <<>>) =>
              fnOutput.value = fnInput.plain
        /\ (fnInput.kind = "plain" /\ fnInput.plain = <<>>) =>
              fnOutput.value = Undefined
        /\ (fnInput.kind = "raw" /\ TrimmedHasNonBase64Char(fnInput.value)) =>
              fnOutput.value = Trim(fnInput.value)
        /\ fnInput.kind = "raw" =>
              \A s \in PlaintextsOf(fnInput.value) : fnOutput.value = s

C15_Witness ==
    /\ SecretResolved
    /\ fnInput.kind = "raw"
    /\ fnInput.value = <<" ", "Y", "Q", "=">>
    /\ fnOutput.value = <<"a">>

\* the override path of the configuration: process.env.AWS_ENDPOINT_PATH,
\* trimmed, empty when it is not set
OverridePath ==
    IF NoOverrideConfigured THEN <<>> ELSE Trim(env.AWS_ENDPOINT_PATH)

\* the base URL of the configuration
BaseUrl == IF Absent(env.AWS_ENDPOINT) THEN AWS_ENDPOINT ELSE env.AWS_ENDPOINT

\* the endpoint the three-way case gives
ThreeWayEndpoint ==
    IF OverridePath # <<>>
    THEN SchemeHostPort(BaseUrl)
           \o (IF OverridePath[1] = "/" THEN OverridePath ELSE <<"/">> \o OverridePath)
    ELSE IF \E i \in 9..Len(BaseUrl) : BaseUrl[i] = "/"
    THEN BaseUrl
    ELSE BaseUrl \o AWS_ENDPOINT_PATH

(***************************************************************************)
(* C16: the endpoint sendToAwsEndpoint resolves is, with an override path, *)
(* scheme://host[:port] of the base URL followed by the override path      *)
(* (prefixed with '/' if it lacks one); with no override and a base URL    *)
(* that has a '/' at index 8 or later, the base URL unchanged; otherwise   *)
(* the base URL followed by the default path.                              *)
(***************************************************************************)
C16_ThreeWayResolution ==
    (SendEntered /\ SchemeLen(BaseUrl) > 0) => awsEndpoint = ThreeWayEndpoint

\* getAwsRequestHeaders was applied to the grant and API key in fnInput
HeadersBuilt == fnInput.kind = "headers" /\ fnOutput # NoOutput

\* the grant in fnInput has a non-empty token
GrantHasNonEmptyToken == fnInput.auth # NoGrant /\ ~Absent(fnInput.auth.token)

(***************************************************************************)
(* C17: for every grant and API key, the headers getAwsRequestHeaders      *)
(* builds have Content-Type application/json; auth-token and Authorization *)
(* are both present or both absent, and present exactly when the grant has *)
(* a non-empty token, auth-token being the raw token and Authorization the *)
(* token type (Bearer when the grant has none), a space and the token;     *)
(* x-api-key is present exactly when an API key is configured.             *)
(***************************************************************************)
C17_HeadersWellFormed ==
    HeadersBuilt =>
        LET h == fnOutput.value
        IN  /\ h.contentType = "application/json"
            /\ h.authToken = Undefined <=> h.authorization = Undefined
            /\ h.authToken # Undefined <=> GrantHasNonEmptyToken
            /\ GrantHasNonEmptyToken =>
                  /\ h.authToken = fnInput.auth.token
                  /\ h.authorization =
                        (IF Absent(fnInput.auth.tokenType) THEN Bearer
                         ELSE fnInput.auth.tokenType)
                        \o <<" ">> \o fnInput.auth.token
            /\ h.xApiKey # Undefined <=> ~Absent(fnInput.apiKey)
            /\ ~Absent(fnInput.apiKey) => h.xApiKey = fnInput.apiKey

C17_Witness ==
    /\ HeadersBuilt
    /\ GrantHasNonEmptyToken
    /\ fnInput.auth.tokenType = <<>>
    /\ fnInput.apiKey = <<>>
    /\ fnOutput.value.authorization = Bearer \o <<" ">> \o fnInput.auth.token
    /\ fnOutput.value.xApiKey = Undefined

(***************************************************************************)
(* C18: within one invocation of sendToAwsEndpoint there is at most one    *)
(* POST to the primary endpoint before any refresh, at most one forced     *)
(* token refresh, at most one retry POST and at most five alternate POSTs, *)
(* so at most seven delivery POSTs; a 401 answered to the retry causes no  *)
(* second refresh and no second retry.                                     *)
(***************************************************************************)
C18_CountsBounded ==
    /\ Len(PostsOf("primary")) <= 1
    /\ ForcedRefreshCount <= 1
    /\ Len(PostsOf("retry")) <= 1
    /\ Len(PostsOf("alt")) <= 5
    /\ Len(posts) <= 7
    /\ Len(tokenCalls) <= (IF caller = "handler" THEN 2 ELSE 1)
    /\ ForcedRefreshCount = 1 => (Len(PostsOf("primary")) = 1 /\ posts[1].phase = "primary")
    /\ PostsOf("retry") # <<>> => ForcedRefreshCount = 1
    /\ (answers.retry = <<401>> /\ SendExited) =>
          /\ ForcedRefreshCount = 1
          /\ Len(PostsOf("retry")) = 1
          /\ PostsOf("alt") = <<>>
          /\ Len(posts) = 2

C18_Witness ==
    /\ SendExited
    /\ answers.primary = <<401>>
    /\ answers.retry = <<404>>
    /\ ForcedRefreshCount = 1
    /\ Len(posts) = 7

\* the URLs of the alternate POSTs issued so far
AltUrls == {PostsOf("alt")[k].req.url : k \in 1..Len(PostsOf("alt"))}

\* once the fallback has begun, a step calls no token provider, and a step
\* that stays in the fallback issues one POST, to an alternate not yet tried
FallbackStep ==
    PostsOf("alt") # <<>> =>
        /\ tokenCalls' = tokenCalls
        /\ tokenPosts' = tokenPosts
        /\ pc' = "s_alt_wait" =>
              /\ Len(posts') = Len(posts) + 1
              /\ posts'[Len(posts')].phase = "alt"
              /\ posts'[Len(posts')].req.url \notin AltUrls

\* the alternates tried so far got one POST each, with the token the
\* invocation started with, and no token call is pending
FallbackState ==
    /\ Cardinality(AltUrls) = Len(PostsOf("alt"))
    /\ \A k \in 1..Len(PostsOf("alt")) :
          PostsOf("alt")[k].req.headers.authToken = cognitoAuth.token
    /\ PostsOf("alt") # <<>> => pc \in {"s_alt_wait", "h_send_ret", "done"}

(***************************************************************************)
(* C19: during the 404 fallback sendToAwsEndpoint issues exactly one POST  *)
(* per alternate and never calls the token provider: an alternate that     *)
(* answers 401, or any other non-2xx status, causes no token refresh and   *)
(* no retry of that alternate, only a move to the next one.                *)
(***************************************************************************)
C19_FallbackNeverRefreshes == []FallbackState /\ [][FallbackStep]_vars

C19_Witness ==
    /\ pc = "s_alt_wait"
    /\ answers.alt = <<401>>
    /\ Len(PostsOf("alt")) = 2
    /\ ForcedRefreshCount = 0

\* the first POST failed with something other than 401 and 404: another
\* non-2xx status, or no response at all
PrimaryFailedOtherwise ==
    /\ answers.primary # <<>>
    /\ ~Answered2xx(answers.primary)
    /\ answers.primary[1] \notin {401, 404}

FailureAfterAlternates ==
    /\ result # NoResult
    /\ ~result.success
    /\ Len(PostsOf("alt")) = Len(alternativePaths)

\* the error of the last attempt that was made before the fallback: of the
\* retry POST, of the failed forced refresh, or of the first POST
PrimaryAttemptError ==
    IF answers.retry # <<>> THEN Error(answers.retry[1], posts[1].req.url, "retry")
    ELSE IF ForcedRefreshCount = 1 THEN tokRet.err
    ELSE Error(answers.primary[1], posts[1].req.url, "primary")

(***************************************************************************)
(* C21 (as stated): the error carried by a Failure is the error of the     *)
(* last attempt made; when the alternates were tried and all failed,       *)
(* lastError and the status code of the error details come from the last   *)
(* alternate attempt.                                                      *)
(***************************************************************************)
C21_FailureCarriesLastAlternateError ==
    FailureAfterAlternates =>
        /\ result.lastError.from = "alt"
        /\ result.lastError.status = answers.alt[1]
        /\ result.error.statusCode = answers.alt[1]

(***************************************************************************)
(* C21 (amended): the error carried by a Failure is the error of the       *)
(* primary attempt, that is of the retry POST when one was made, else of   *)
(* the failed forced refresh, else of the first POST; when the alternates  *)
(* were tried and all failed it is still that error, with status 404,      *)
(* whatever the alternates answered.                                       *)
(***************************************************************************)
C21_FailureCarriesPrimaryAttemptError ==
    (result # NoResult /\ ~result.success) =>
        /\ result.lastError = PrimaryAttemptError
        /\ result.lastError.from # "alt"
        /\ result.error.statusCode = PrimaryAttemptError.status
        /\ FailureAfterAlternates => result.error.statusCode = 404

C21_Witness ==
    /\ FailureAfterAlternates
    /\ answers.alt = <<500>>
    /\ result.lastError.status = 404

\* the first POST was answered 401, the forced refresh returned a grant and
\* the retry POST was answered 404
RetryEnded404 ==
    /\ answers.primary = <<401>>
    /\ refreshedAuth # NoGrant
    /\ answers.retry = <<404>>

(***************************************************************************)
(* C22: when the first POST returns 401, the forced refresh succeeds and   *)
(* the retry POST fails with 404 while no override path is configured, the *)
(* 404 fallback runs on the retry's error: the alternates are tried in     *)
(* order, and a 2xx from one of them yields Success with that alternate as *)
(* endpoint.                                                               *)
(***************************************************************************)
C22_FallbackAfterRetry404 ==
    LET alts == PostsOf("alt")
    IN  /\ (RetryEnded404 /\ pc \in {"s_after", "s_alt_wait"}) =>
              errorAfterRetry = Error(404, posts[1].req.url, "retry")
        /\ (RetryEnded404 /\ NoOverrideConfigured /\ SendExited) =>
              /\ Len(alts) >= 1
              /\ \A k \in 1..Len(alts) :
                    alts[k].req.url = SchemeHostPort(posts[1].req.url) \o ExpectedAlternates[k]
              /\ IF Answered2xx(answers.alt)
                 THEN /\ result.success
                      /\ result.endpoint = alts[Len(alts)].req.url
                 ELSE /\ Len(alts) = Len(ExpectedAlternates)
                      /\ ~result.success
                      /\ result.lastError = Error(404, posts[1].req.url, "retry")

C22_Witness ==
    /\ RetryEnded404
    /\ NoOverrideConfigured
    /\ Len(PostsOf("alt")) = 2
    /\ Answered2xx(answers.alt)
    /\ result # NoResult
    /\ result.success
    /\ result.endpoint = PostsOf("alt")[2].req.url

\* the invocation is suspended on an outbound request
Awaiting == pc \in {"tok_wait", "s_primary_wait", "s_retry_wait", "s_alt_wait"}

(***************************************************************************)
(* C23: within one invocation at most one outbound request (token exchange *)
(* or delivery POST) is in flight at any time, and it is the one issued    *)
(* last: the forced refresh starts only after the primary POST has         *)
(* completed, the retry only after the refresh has completed, and each     *)
(* alternate POST only after the previous attempt has completed.           *)
(***************************************************************************)
C23_OneRequestInFlight ==
    /\ Cardinality(inflight) <= 1
    /\ \A x \in inflight : x.n = Issued
    /\ inflight # {} <=> Awaiting
    /\ ForcedRefreshCount >= 1 => answers.primary = <<401>>
    /\ PostsOf("retry") # <<>> => (tokRet.ok /\ refreshedAuth = tokRet.grant)
    /\ PostsOf("alt") # <<>> =>
          /\ answers.primary # <<>>
          /\ PostsOf("retry") # <<>> => answers.retry # <<>>
          /\ Len(PostsOf("alt")) >= 2 => answers.alt # <<>>

C23_Witness ==
    /\ pc = "s_retry_wait"
    /\ Issued = 4
    /\ inflight = {[n |-> 4, req |-> PostsOf("retry")[1].req]}

\* both calls of getCognitoAccessToken have returned or thrown
ExchangeDone == fnInput.kind = "exchange" /\ pc = "done"

\* the answer holds a non-empty access_token
HasAccessToken(r) ==
    /\ r.status >= 200 /\ r.status <= 299
    /\ r.hasData
    /\ ~Absent(r.access_token)

(***************************************************************************)
(* C24: for the same configuration and the same token-endpoint response,   *)
(* getCognitoAccessToken with forceRefresh = true and with forceRefresh =  *)
(* false behave identically towards the outside: each call sends one POST  *)
(* to the token endpoint with the same URL and body (none when the         *)
(* configuration makes it throw first), performs no retry, takes nothing   *)
(* from an earlier call, and returns the same grant or throws the same     *)
(* error.                                                                  *)
(***************************************************************************)
C24_ForceRefreshChangesNothing ==
    ExchangeDone =>
        /\ Len(tokenCalls) = 2
        /\ tokenCalls[1].forceRefresh = fnInput.forcedFirst
        /\ tokenCalls[2].forceRefresh = ~fnInput.forcedFirst
        /\ Len(fnOutput.posts) = IF MissingNames = <<>> THEN 1 ELSE 0
        /\ Len(tokenPosts) = 2 * Len(fnOutput.posts)
        /\ Len(tokenPosts) = 2 => tokenPosts[1] = tokenPosts[2]
        /\ \A i \in DOMAIN tokenPosts : tokenPosts[i].url = fnInput.config.tokenUrl
        /\ fnInput.first = fnInput.second => tokRet = fnOutput.first
        /\ MissingNames = <<>> =>
              /\ tokRet.ok <=> HasAccessToken(fnInput.second)
              /\ tokRet.ok => tokRet.grant.token = fnInput.second.access_token
              /\ fnOutput.first.ok <=> HasAccessToken(fnInput.first)
              /\ fnOutput.first.ok => fnOutput.first.grant.token = fnInput.first.access_token

C24_Witness ==
    /\ ExchangeDone
    /\ fnInput.first = fnInput.second
    /\ tokenCalls = <<[forceRefresh |-> FALSE], [forceRefresh |-> TRUE]>>
    /\ Len(tokenPosts) = 2
    /\ tokRet.ok
    /\ tokRet = fnOutput.first

\* the claims of the access tokens that are given to the exchange
ExpectedClaims(token) ==
    IF token = JwtOf(<<"{", "}">>) THEN [obj |-> <<>>]
    ELSE IF token = <<"h", ".", "e", "3", "0">> THEN [obj |-> <<>>]
    ELSE IF token = JwtOf(<<"{", "\"", "a", "\"", ":", "1", "}">>)
    THEN [obj |-> <<[key |-> <<"a">>, value |-> [num |-> 1]]>>]
    ELSE IF token = JwtOf(<<"{", "\"", "e", "x", "p", "\"", ":", "\"", "x", "\"", "}">>)
    THEN [obj |-> <<[key |-> <<"e", "x", "p">>, value |-> [str |-> <<"x">>]]>>]
    ELSE IF token = JwtOf(<<"5">>) THEN [num |-> 5]
    ELSE [null |-> TRUE]

\* the token is none of the JWTs with a payload that parses
Undecodable(token) ==
    \/ token \in Tokens
    \/ token \in {<<".">>, <<"a", ".">>, <<"a", ".", "!", "!">>, JwtOf(<<"{">>)}

\* what the call that got answer r returned or threw
ReturnFitsAnswer(ret, r) ==
    /\ ret.ok <=> HasAccessToken(r)
    /\ ret.ok =>
          /\ ret.grant.token = r.access_token
          /\ ret.grant.claims = ExpectedClaims(r.access_token)
          /\ Undecodable(r.access_token) => ret.grant.claims = [null |-> TRUE]

(***************************************************************************)
(* C25: whether getCognitoAccessToken succeeds or fails never depends on   *)
(* JWT claim decoding: whenever the token endpoint returns a non-empty     *)
(* access_token the call returns a grant, with claims = null when the      *)
(* token is not a decodable JWT, and a decoding failure never turns into a *)
(* thrown error.                                                           *)
(***************************************************************************)
C25_DecodingNeverGates ==
    (fnInput.kind = "exchange" /\ MissingNames = <<>>) =>
        /\ pc = "fn_first" => ReturnFitsAnswer(tokRet, fnInput.first)
        /\ pc = "done" => ReturnFitsAnswer(tokRet, fnInput.second)

C25_Witness ==
    /\ fnInput.kind = "exchange"
    /\ pc = "fn_first"
    /\ fnInput.first.access_token = JwtOf(<<"{">>)
    /\ tokRet.ok
    /\ tokRet.grant.claims = [null |-> TRUE]

\* the strings sendToAwsEndpoint has written to the log about its requests
Logged ==
    UNION {LoggedByPost(posts[i].req) : i \in DOMAIN posts}
    \cup (IF answers.primary = <<401>> THEN LoggedOn401(posts[1].req) ELSE {})

\* string s holds string t
Contains(s, t) ==
    \E i \in 0..(Len(s) - Len(t)) : SubSeq(s, i + 1, i + Len(t)) = t

(***************************************************************************)
(* C26: on no execution path of sendToAwsEndpoint, the 401 path included,  *)
(* is the full bearer token written to the log: every logged value derived *)
(* from the token or from the request headers is a truncated preview.      *)
(***************************************************************************)
C26_NoFullTokenLogged ==
    \A i \in DOMAIN posts :
        \A v \in Logged : ~Contains(v, posts[i].req.headers.authToken)

\* the base URL has a path: a '/' after scheme://host
BaseUrlHasPath ==
    /\ SchemeLen(BaseUrl) > 0
    /\ FirstAt(BaseUrl, "/", SchemeLen(BaseUrl) + 1) <= Len(BaseUrl)

(***************************************************************************)
(* C27: when the AWS_ENDPOINT_PATH environment variable is not set and the *)
(* base endpoint URL already contains a path, the primary POST goes to the *)
(* base endpoint URL unchanged.                                            *)
(***************************************************************************)
C27_BaseUrlWithPathUnchanged ==
    (Absent(env.AWS_ENDPOINT_PATH) /\ BaseUrlHasPath /\ posts # <<>>) =>
        posts[1].req.url = BaseUrl

(***************************************************************************)
(* C28: alternate-path POSTs are issued only after a delivery POST         *)
(* (primary or retry) was answered with HTTP 404 by the delivery endpoint; *)
(* a failure of the forced token refresh, whatever HTTP status the token   *)
(* endpoint returned, never causes an alternate POST.                      *)
(***************************************************************************)
C28_AlternatesOnlyAfterDelivery404 ==
    /\ PostsOf("alt") # <<>> => (answers.primary = <<404>> \/ answers.retry = <<404>>)
    /\ (ForcedRefreshCount = 1 /\ pc # "tok_call" /\ pc # "tok_wait" /\ ~tokRet.ok) =>
          PostsOf("alt") = <<>>

\* the path the handler took
HandlerPath ==
    IF req.method = "OPTIONS" THEN "options"
    ELSE IF NoProjectId THEN "no project"
    ELSE IF UnexpectedException THEN "exception"
    ELSE IF InitialTokenFailed THEN "token failure"
    ELSE IF result # NoResult /\ result.success THEN "delivery success"
    ELSE "delivery failure"

(***************************************************************************)
(* C29: on every execution path of the handler (OPTIONS, missing project   *)
(* ID, token failure, delivery success, delivery failure, unexpected       *)
(* exception) exactly one HTTP response is sent: never zero and never two. *)
(***************************************************************************)
C29_ExactlyOneResponse ==
    /\ Len(responses) <= 1
    /\ caller = "direct" => responses = <<>>
    /\ caller = "handler" => (Len(responses) = 1 <=> pc = "done")

C29_Witness ==
    /\ caller = "handler"
    /\ pc = "done"
    /\ HandlerPath = "delivery success"
    /\ Len(responses) = 1
    /\ responses[1].status = 200

====
